---- MODULE Spec2Model ----
(***************************************************************************)
(* nutil: create / delete / status of NetworkManager bond, access-point    *)
(* and station connections.  The model follows bond.rs, access_point.rs,   *)
(* station.rs, connection.rs and util.rs.  NetworkManager (the backend)    *)
(* is the environment: its stored connections, its active connections,     *)
(* its devices, the outcome of each mutation and the state-change          *)
(* notifications it delivers.                                              *)
(***************************************************************************)
EXTENDS Integers, Sequences, FiniteSets, TLC

VARIABLES
    stored,     \* client.connections(): sequence of [uid, conn], in scan order
    active,     \* client.active_connections(): sequence of [conn (uid), state]
    devices,    \* interface names for which client.device_by_iface() is Some
    nextUid,    \* handle the backend gives to the next added connection
    inv,        \* the running invocation: [verb, path, args]
    opts,       \* the options struct produced by TryFrom (NONE before / on failure)
    pc,         \* position of the verb's control flow
    result,     \* what the invocation returned (NONE while it runs)
    calls,      \* backend calls issued by this invocation, in order
    loc,        \* the verb's local variables
    sender,     \* Rc<RefCell<Option<Sender>>>: TRUE while the sender is not taken
    tasks,      \* spawn_local'ed notification tasks not yet run (their states)
    chan,       \* value sent on the oneshot channel (NONE while empty)
    notifs,     \* number of state changes the backend has made during the wait
    observed,   \* states of the awaited active connection the program has read:
                \* active_conn.state() and the state argument of each handler task run
    snap,       \* backend state at the start of the invocation
    prev,       \* summary of the previous invocation (NONE for the first)
    callNo      \* number of invocations started

vars == <<stored, active, devices, nextUid, inv, opts, pc, result, calls, loc,
          sender, tasks, chan, notifs, observed, snap, prev, callNo>>

backendVars == <<stored, active, devices, nextUid>>
waitVars    == <<sender, tasks, chan, notifs, observed>>

----------------------------------------------------------------------------
(* Bounds of the model *)

MaxCalls      == 2   \* invocations per behaviour (the first, then repeats / follow-ups)
MaxInitConns  == 2   \* stored connections the backend holds before the first invocation
MaxNotifs     == 2   \* state changes of the awaited active connection

----------------------------------------------------------------------------
(* Option<T>::None, setting names and program constants *)

NONE == "<none>"

SETTING_BOND_SETTING_NAME     == "bond"
SETTING_WIRED_SETTING_NAME    == "802-3-ethernet"
SETTING_WIRELESS_SETTING_NAME == "802-11-wireless"
SETTING_WIRELESS_MODE_AP      == "ap"
SETTING_WIRELESS_MODE_INFRA   == "infrastructure"
SETTING_IP4_CONFIG_METHOD_MANUAL == "manual"
SETTING_IP4_CONFIG_METHOD_AUTO   == "auto"
DEFAULT_IP4_ADDR == "192.0.2.1/24"

DeviceTypeBond     == "Bond"
DeviceTypeEthernet == "Ethernet"
DeviceTypeWifi     == "Wifi"

MinPasswordLen == 8

\* ActiveConnectionState
StateUnknown      == "unknown"
StateActivating   == "activating"
StateActivated    == "activated"
StateDeactivating == "deactivating"
StateDeactivated  == "deactivated"
ActiveConnectionState ==
    {StateUnknown, StateActivating, StateActivated, StateDeactivating, StateDeactivated}

\* Results of an invocation (the anyhow! messages, grouped as the error taxonomy)
Ok                     == "Ok"
MissingRequiredField   == "MissingRequiredField"
InvalidValue           == "InvalidValue"
AlreadyExists          == "AlreadyExists"
InterfaceConflict      == "InterfaceConflict"
NotFound               == "NotFound"
BackendOperationFailed == "BackendOperationFailed"
ActivationFailed       == "ActivationFailed"
Panic                  == "Panic"
MissingSetting         == "MissingSetting"

ValidationErrors == {MissingRequiredField, InvalidValue}
ConflictErrors   == {AlreadyExists, InterfaceConflict}

----------------------------------------------------------------------------
(* Connection profiles (SimpleConnection / Connection settings) *)

\* SimpleConnection::new(): no setting added yet
EmptyConnection ==
    [type |-> NONE, id |-> NONE, ifname |-> NONE, autoconnect |-> TRUE,
     master |-> NONE, slave_type |-> NONE,
     bond_mode |-> NONE, miimon |-> NONE,
     wireless |-> FALSE, mode |-> NONE, ssid |-> NONE, psk |-> NONE,
     ip4_method |-> NONE, ip4_addrs |-> <<>>]

\* Ipv4Net::from_str: a CIDR string parses iff it carries a prefix length
Ip4Strings == {"192.168.0.10/24", "172.16.0.1/24", "172.16.0.1", "", DEFAULT_IP4_ADDR}
\* (<<>> is the parse error, <<net>> the parsed network)
Ipv4NetFromStr(s) ==
    CASE s = "192.168.0.10/24" -> <<[addr |-> "192.168.0.10", prefix |-> 24]>>
      [] s = "172.16.0.1/24"   -> <<[addr |-> "172.16.0.1",   prefix |-> 24]>>
      [] s = DEFAULT_IP4_ADDR  -> <<[addr |-> "192.0.2.1",    prefix |-> 24]>>
      [] OTHER                 -> <<>>

create_wired_connection(wired_ifname, bond_ifname) ==
    LET base == [EmptyConnection EXCEPT
                    !.type = SETTING_WIRED_SETTING_NAME,
                    !.id = wired_ifname,
                    !.ifname = wired_ifname]
    IN IF bond_ifname # NONE
       THEN [base EXCEPT !.master = bond_ifname,
                         !.slave_type = SETTING_BOND_SETTING_NAME]
       ELSE base

\* get_bond_mode_str with a string for every mode
get_bond_mode_str_m(mode) ==
    IF mode = "ActiveBackup" THEN "active-backup" ELSE "balance-rr"

\* get_bond_mode_str: every mode but ActiveBackup is todo!()
get_bond_mode_str(mode) ==
    IF mode = "ActiveBackup" THEN "active-backup" ELSE Panic

\* Result<SimpleConnection>; what: the field an error message names
OkConn(c)  == [err |-> NONE, conn |-> c, what |-> NONE]
ErrConn(e) == [err |-> e, conn |-> EmptyConnection, what |-> NONE]
\* anyhow!("Required ... not specified")
ErrRequired(field) ==
    [err |-> MissingRequiredField, conn |-> EmptyConnection, what |-> field]

\* create_bond_connection reading the bond mode before the interface name
create_bond_connection_m(o) ==
    IF get_bond_mode_str(o.bond_mode) = Panic THEN ErrConn(Panic)
    ELSE IF o.bond_ifname = NONE THEN ErrRequired("bond interface")
    ELSE OkConn([EmptyConnection EXCEPT
            !.type = SETTING_BOND_SETTING_NAME,
            !.id = o.bond_ifname,
            !.ifname = o.bond_ifname,
            !.bond_mode = get_bond_mode_str(o.bond_mode),
            !.miimon = "100"])

create_bond_connection(o) ==
    IF o.bond_ifname = NONE THEN ErrRequired("bond interface")
    ELSE IF get_bond_mode_str(o.bond_mode) = Panic THEN ErrConn(Panic)
    ELSE IF o.ip4_addr # NONE /\ Ipv4NetFromStr(o.ip4_addr) = <<>> THEN ErrConn(InvalidValue)
    ELSE OkConn([EmptyConnection EXCEPT
            !.type = SETTING_BOND_SETTING_NAME,
            !.id = o.bond_ifname,
            !.ifname = o.bond_ifname,
            !.bond_mode = get_bond_mode_str(o.bond_mode),
            !.miimon = "100",
            !.ip4_addrs = IF o.ip4_addr # NONE
                          THEN Ipv4NetFromStr(o.ip4_addr) ELSE <<>>,
            !.ip4_method = IF o.ip4_addr # NONE
                           THEN SETTING_IP4_CONFIG_METHOD_MANUAL
                           ELSE SETTING_IP4_CONFIG_METHOD_AUTO])

\* create_access_point_connection with the method auto when no address is given
create_access_point_connection_m(o) ==
    IF o.ssid = NONE THEN ErrRequired("SSID")
    ELSE IF o.wireless_ifname = NONE THEN ErrRequired("wireless interface")
    ELSE IF o.ip4_addr # NONE /\ Ipv4NetFromStr(o.ip4_addr) = <<>> THEN ErrConn(InvalidValue)
    ELSE OkConn([EmptyConnection EXCEPT
            !.type = SETTING_WIRELESS_SETTING_NAME,
            !.autoconnect = FALSE,
            !.id = o.ssid,
            !.ifname = o.wireless_ifname,
            !.wireless = TRUE,
            !.mode = SETTING_WIRELESS_MODE_AP,
            !.ssid = o.ssid,
            !.psk = o.password,
            !.ip4_addrs = Ipv4NetFromStr(IF o.ip4_addr # NONE THEN o.ip4_addr
                                         ELSE DEFAULT_IP4_ADDR),
            !.ip4_method = IF o.ip4_addr # NONE
                           THEN SETTING_IP4_CONFIG_METHOD_MANUAL
                           ELSE SETTING_IP4_CONFIG_METHOD_AUTO])

create_access_point_connection(o) ==
    IF o.ssid = NONE THEN ErrRequired("SSID")
    ELSE IF o.wireless_ifname = NONE THEN ErrRequired("wireless interface")
    ELSE IF o.ip4_addr # NONE /\ Ipv4NetFromStr(o.ip4_addr) = <<>> THEN ErrConn(InvalidValue)
    ELSE OkConn([EmptyConnection EXCEPT
            !.type = SETTING_WIRELESS_SETTING_NAME,
            !.autoconnect = FALSE,
            !.id = o.ssid,
            !.ifname = o.wireless_ifname,
            !.wireless = TRUE,
            !.mode = SETTING_WIRELESS_MODE_AP,
            !.ssid = o.ssid,
            !.psk = o.password,
            !.ip4_addrs = Ipv4NetFromStr(IF o.ip4_addr # NONE THEN o.ip4_addr
                                         ELSE DEFAULT_IP4_ADDR),
            !.ip4_method = SETTING_IP4_CONFIG_METHOD_MANUAL])

create_sta_connection(o) ==
    IF o.ssid = NONE THEN ErrRequired("SSID")
    ELSE IF o.wireless_ifname = NONE THEN ErrRequired("wireless interface")
    ELSE IF o.ip4_addr # NONE /\ Ipv4NetFromStr(o.ip4_addr) = <<>> THEN ErrConn(InvalidValue)
    ELSE OkConn([EmptyConnection EXCEPT
            !.type = SETTING_WIRELESS_SETTING_NAME,
            !.id = o.ssid,
            !.ifname = o.wireless_ifname,
            !.wireless = TRUE,
            !.mode = SETTING_WIRELESS_MODE_INFRA,
            !.ssid = o.ssid,
            !.psk = o.password,
            !.ip4_addrs = IF o.ip4_addr # NONE
                          THEN Ipv4NetFromStr(o.ip4_addr) ELSE <<>>,
            !.ip4_method = IF o.ip4_addr # NONE
                           THEN SETTING_IP4_CONFIG_METHOD_MANUAL
                           ELSE SETTING_IP4_CONFIG_METHOD_AUTO])

----------------------------------------------------------------------------
(* Connection matcher (connection.rs) *)

\* matching_bond_connection without the type check of the compared connection
matching_bond_connection_m(conn, cmp_conn) ==
    IF conn.id = NONE \/ cmp_conn.id = NONE THEN FALSE
    ELSE IF conn.type = NONE \/ conn.type # SETTING_BOND_SETTING_NAME THEN FALSE
    ELSE IF conn.ifname # NONE
            /\ (cmp_conn.ifname = NONE \/ conn.ifname # cmp_conn.ifname) THEN FALSE
    ELSE TRUE

matching_bond_connection(conn, cmp_conn) ==
    IF conn.id = NONE \/ cmp_conn.id = NONE THEN FALSE
    ELSE IF conn.type = NONE \/ conn.type # SETTING_BOND_SETTING_NAME THEN FALSE
    ELSE IF cmp_conn.type = NONE \/ cmp_conn.type # SETTING_BOND_SETTING_NAME THEN FALSE
    ELSE IF conn.ifname # NONE
            /\ (cmp_conn.ifname = NONE \/ conn.ifname # cmp_conn.ifname) THEN FALSE
    ELSE TRUE

\* matching_wired_connection with the master compared as a plain string, the ""
\* of the search profile included
matching_wired_connection_m(conn, cmp_conn) ==
    IF conn.id = NONE \/ cmp_conn.id = NONE THEN FALSE
    ELSE IF conn.type = NONE \/ conn.type # SETTING_WIRED_SETTING_NAME THEN FALSE
    ELSE IF cmp_conn.type = NONE \/ cmp_conn.type # SETTING_WIRED_SETTING_NAME THEN FALSE
    ELSE IF conn.ifname # NONE
            /\ (cmp_conn.ifname = NONE \/ conn.ifname # cmp_conn.ifname) THEN FALSE
    ELSE IF conn.master # cmp_conn.master THEN FALSE
    ELSE IF conn.slave_type # cmp_conn.slave_type THEN FALSE
    ELSE TRUE

\* matching_wired_connection without the comparison of the slave types
matching_wired_connection_s(conn, cmp_conn) ==
    IF conn.id = NONE \/ cmp_conn.id = NONE THEN FALSE
    ELSE IF conn.type = NONE \/ conn.type # SETTING_WIRED_SETTING_NAME THEN FALSE
    ELSE IF cmp_conn.type = NONE \/ cmp_conn.type # SETTING_WIRED_SETTING_NAME THEN FALSE
    ELSE IF conn.ifname # NONE
            /\ (cmp_conn.ifname = NONE \/ conn.ifname # cmp_conn.ifname) THEN FALSE
    ELSE IF conn.master = NONE /\ cmp_conn.master # NONE THEN FALSE
    ELSE IF conn.master # NONE /\ cmp_conn.master = NONE THEN FALSE
    ELSE IF conn.master # NONE /\ cmp_conn.master # NONE
            /\ conn.master # cmp_conn.master /\ conn.master # "" THEN FALSE
    ELSE TRUE

\* matching_wired_connection with an absent master of the desired profile accepted
\* against any master of the compared connection
matching_wired_connection_w(conn, cmp_conn) ==
    IF conn.id = NONE \/ cmp_conn.id = NONE THEN FALSE
    ELSE IF conn.type = NONE \/ conn.type # SETTING_WIRED_SETTING_NAME THEN FALSE
    ELSE IF cmp_conn.type = NONE \/ cmp_conn.type # SETTING_WIRED_SETTING_NAME THEN FALSE
    ELSE IF conn.ifname # NONE
            /\ (cmp_conn.ifname = NONE \/ conn.ifname # cmp_conn.ifname) THEN FALSE
    ELSE IF conn.master # NONE /\ cmp_conn.master = NONE THEN FALSE
    ELSE IF conn.master # NONE /\ cmp_conn.master # NONE
            /\ conn.master # cmp_conn.master /\ conn.master # "" THEN FALSE
    ELSE IF conn.master # NONE /\ cmp_conn.master # NONE /\ conn.master = "" THEN TRUE
    ELSE IF conn.slave_type # NONE /\ cmp_conn.slave_type = NONE THEN FALSE
    ELSE IF conn.slave_type # NONE /\ cmp_conn.slave_type # NONE
            /\ conn.slave_type # cmp_conn.slave_type THEN FALSE
    ELSE TRUE

\* matching_wired_connection with the sentinel accepted only against a compared
\* connection enslaved as a bond slave
matching_wired_connection_b(conn, cmp_conn) ==
    IF conn.id = NONE \/ cmp_conn.id = NONE THEN FALSE
    ELSE IF conn.type = NONE \/ conn.type # SETTING_WIRED_SETTING_NAME THEN FALSE
    ELSE IF cmp_conn.type = NONE \/ cmp_conn.type # SETTING_WIRED_SETTING_NAME THEN FALSE
    ELSE IF conn.ifname # NONE
            /\ (cmp_conn.ifname = NONE \/ conn.ifname # cmp_conn.ifname) THEN FALSE
    ELSE IF conn.master = NONE /\ cmp_conn.master # NONE THEN FALSE
    ELSE IF conn.master # NONE /\ cmp_conn.master = NONE THEN FALSE
    ELSE IF conn.master # NONE /\ cmp_conn.master # NONE
            /\ conn.master # cmp_conn.master /\ conn.master # "" THEN FALSE
    ELSE IF conn.slave_type = NONE /\ cmp_conn.slave_type # NONE THEN FALSE
    ELSE IF conn.slave_type # NONE /\ cmp_conn.slave_type = NONE THEN FALSE
    ELSE IF conn.slave_type # NONE /\ cmp_conn.slave_type # NONE
            /\ conn.slave_type # cmp_conn.slave_type THEN FALSE
    ELSE TRUE

matching_wired_connection(conn, cmp_conn) ==
    IF conn.id = NONE \/ cmp_conn.id = NONE THEN FALSE
    ELSE IF conn.type = NONE \/ conn.type # SETTING_WIRED_SETTING_NAME THEN FALSE
    ELSE IF cmp_conn.type = NONE \/ cmp_conn.type # SETTING_WIRED_SETTING_NAME THEN FALSE
    ELSE IF conn.ifname # NONE
            /\ (cmp_conn.ifname = NONE \/ conn.ifname # cmp_conn.ifname) THEN FALSE
    ELSE IF conn.master = NONE /\ cmp_conn.master # NONE THEN FALSE
    ELSE IF conn.master # NONE /\ cmp_conn.master = NONE THEN FALSE
    ELSE IF conn.master # NONE /\ cmp_conn.master # NONE
            /\ conn.master # cmp_conn.master /\ conn.master # "" THEN FALSE
    ELSE IF conn.master # NONE /\ cmp_conn.master # NONE /\ conn.master = "" THEN TRUE
    ELSE IF conn.slave_type = NONE /\ cmp_conn.slave_type # NONE THEN FALSE
    ELSE IF conn.slave_type # NONE /\ cmp_conn.slave_type = NONE THEN FALSE
    ELSE IF conn.slave_type # NONE /\ cmp_conn.slave_type # NONE
            /\ conn.slave_type # cmp_conn.slave_type THEN FALSE
    ELSE TRUE

\* matching_wifi_connection comparing the pre-shared keys as well
matching_wifi_connection_k(conn, cmp_conn) ==
    IF conn.id = NONE \/ cmp_conn.id = NONE THEN FALSE
    ELSE IF conn.type = NONE \/ conn.type # SETTING_WIRELESS_SETTING_NAME THEN FALSE
    ELSE IF cmp_conn.type = NONE \/ cmp_conn.type # SETTING_WIRELESS_SETTING_NAME THEN FALSE
    ELSE IF conn.ifname # NONE
            /\ (cmp_conn.ifname = NONE \/ conn.ifname # cmp_conn.ifname) THEN FALSE
    ELSE IF ~conn.wireless THEN FALSE
    ELSE IF ~cmp_conn.wireless THEN FALSE
    ELSE IF conn.mode # NONE
            /\ (cmp_conn.mode = NONE \/ conn.mode # cmp_conn.mode) THEN FALSE
    ELSE IF conn.ssid # NONE
            /\ (cmp_conn.ssid = NONE \/ conn.ssid # cmp_conn.ssid) THEN FALSE
    ELSE IF conn.psk # cmp_conn.psk THEN FALSE
    ELSE TRUE

\* matching_wifi_connection comparing the SSID only when both profiles have one
matching_wifi_connection_m(conn, cmp_conn) ==
    IF conn.id = NONE \/ cmp_conn.id = NONE THEN FALSE
    ELSE IF conn.type = NONE \/ conn.type # SETTING_WIRELESS_SETTING_NAME THEN FALSE
    ELSE IF cmp_conn.type = NONE \/ cmp_conn.type # SETTING_WIRELESS_SETTING_NAME THEN FALSE
    ELSE IF conn.ifname # NONE
            /\ (cmp_conn.ifname = NONE \/ conn.ifname # cmp_conn.ifname) THEN FALSE
    ELSE IF ~conn.wireless THEN FALSE
    ELSE IF ~cmp_conn.wireless THEN FALSE
    ELSE IF conn.mode # NONE
            /\ (cmp_conn.mode = NONE \/ conn.mode # cmp_conn.mode) THEN FALSE
    ELSE IF conn.ssid # NONE /\ cmp_conn.ssid # NONE /\ conn.ssid # cmp_conn.ssid
    THEN FALSE
    ELSE TRUE

matching_wifi_connection(conn, cmp_conn) ==
    IF conn.id = NONE \/ cmp_conn.id = NONE THEN FALSE
    ELSE IF conn.type = NONE \/ conn.type # SETTING_WIRELESS_SETTING_NAME THEN FALSE
    ELSE IF cmp_conn.type = NONE \/ cmp_conn.type # SETTING_WIRELESS_SETTING_NAME THEN FALSE
    ELSE IF conn.ifname # NONE
            /\ (cmp_conn.ifname = NONE \/ conn.ifname # cmp_conn.ifname) THEN FALSE
    ELSE IF ~conn.wireless THEN FALSE
    ELSE IF ~cmp_conn.wireless THEN FALSE
    ELSE IF conn.mode # NONE
            /\ (cmp_conn.mode = NONE \/ conn.mode # cmp_conn.mode) THEN FALSE
    ELSE IF conn.ssid # NONE
            /\ (cmp_conn.ssid = NONE \/ conn.ssid # cmp_conn.ssid) THEN FALSE
    ELSE TRUE

\* the `match device_type` of get_connection / get_active_connection
found_matching(device_type, conn, cmp_conn) ==
    CASE device_type = DeviceTypeBond     -> matching_bond_connection(conn, cmp_conn)
      [] device_type = DeviceTypeEthernet -> matching_wired_connection(conn, cmp_conn)
      [] device_type = DeviceTypeWifi     -> matching_wifi_connection(conn, cmp_conn)
      [] OTHER -> FALSE

\* Option<handle>::None, for RemoteConnection handles and ActiveConnection indexes
NoHandle == 0

\* ActiveConnection::connection(): <<conn>>, or <<>> when the backend cannot resolve it
ConnOf(conns, uid) ==
    IF \E k \in 1..Len(conns) : conns[k].uid = uid
    THEN <<(conns[CHOOSE k \in 1..Len(conns) : conns[k].uid = uid]).conn>>
    ELSE <<>>

\* the loop of get_connection from index i on; matching_conn is the saved match
RECURSIVE get_connection_loop(_, _, _, _, _)
get_connection_loop(conns, device_type, conn, i, matching_conn) ==
    IF i > Len(conns) THEN matching_conn
    ELSE IF conns[i].conn.ifname = NONE
         THEN get_connection_loop(conns, device_type, conn, i + 1, matching_conn)
    ELSE IF found_matching(device_type, conn, conns[i].conn) /\ matching_conn = NoHandle
         THEN get_connection_loop(conns, device_type, conn, i + 1, conns[i].uid)
    ELSE get_connection_loop(conns, device_type, conn, i + 1, matching_conn)

\* get_connection returning the first stored connection, whether it matches or not
get_connection_first(conns, device_type, conn) ==
    IF conns = <<>> THEN NoHandle ELSE conns[1].uid

\* get_connection with the scan starting one entry too late
get_connection_m(conns, device_type, conn) ==
    IF conn.ifname = NONE THEN NoHandle
    ELSE get_connection_loop(conns, device_type, conn, 2, NoHandle)

\* get_connection: handle (uid) of the first matching stored connection, or NoHandle
get_connection(conns, device_type, conn) ==
    IF conn.ifname = NONE THEN NoHandle
    ELSE IF device_type \notin {DeviceTypeBond, DeviceTypeEthernet, DeviceTypeWifi} THEN NoHandle
    ELSE get_connection_loop(conns, device_type, conn, 1, NoHandle)

\* the loop of get_active_connection; returns the index into actives, or NoHandle
RECURSIVE get_active_connection_loop(_, _, _, _, _, _)
get_active_connection_loop(conns, actives, device_type, conn, i, matching_conn) ==
    IF i > Len(actives) THEN matching_conn
    ELSE IF ConnOf(conns, actives[i].conn) = <<>> THEN NoHandle
    ELSE IF ConnOf(conns, actives[i].conn)[1].ifname = NONE
         THEN get_active_connection_loop(conns, actives, device_type, conn, i + 1, matching_conn)
    ELSE IF found_matching(device_type, conn, ConnOf(conns, actives[i].conn)[1])
            /\ matching_conn = NoHandle
         THEN get_active_connection_loop(conns, actives, device_type, conn, i + 1, i)
    ELSE get_active_connection_loop(conns, actives, device_type, conn, i + 1, matching_conn)

get_active_connection(conns, actives, device_type, conn) ==
    IF conn.ifname = NONE THEN NoHandle
    ELSE IF device_type \notin {DeviceTypeBond, DeviceTypeEthernet, DeviceTypeWifi} THEN NoHandle
    ELSE get_active_connection_loop(conns, actives, device_type, conn, 1, NoHandle)

\* get_slave_connections returning the wired connections of any master
get_slave_connections_m(conns, master_ifname, slave_device_type) ==
    IF slave_device_type # DeviceTypeEthernet THEN <<>>
    ELSE SelectSeq(conns, LAMBDA e : e.conn.type = SETTING_WIRED_SETTING_NAME
                                     /\ e.conn.master # NONE)

\* get_slave_connections: the stored wired connections whose master is master_ifname
RECURSIVE get_slave_connections_loop(_, _, _)
get_slave_connections_loop(conns, master_ifname, i) ==
    IF i > Len(conns) THEN <<>>
    ELSE IF conns[i].conn.type # SETTING_WIRED_SETTING_NAME
         THEN get_slave_connections_loop(conns, master_ifname, i + 1)
    ELSE IF conns[i].conn.master # NONE /\ conns[i].conn.master = master_ifname
         THEN <<conns[i]>> \o get_slave_connections_loop(conns, master_ifname, i + 1)
    ELSE get_slave_connections_loop(conns, master_ifname, i + 1)

get_slave_connections(conns, master_ifname, slave_device_type) ==
    IF slave_device_type # DeviceTypeEthernet THEN <<>>
    ELSE get_slave_connections_loop(conns, master_ifname, 1)

----------------------------------------------------------------------------
(* Option model: TryFrom<...Args> and the config-document parsers *)

\* nm::utils_wpa_psk_valid (libnm): 8..63 characters, or 64 hexadecimal digits
Hex64Psks ==
    {"0123456789abcdef0123456789abcdef0123456789abcdef0123456789abcdef"}
utils_wpa_psk_valid(s) ==
    (Len(s) >= MinPasswordLen /\ Len(s) <= 63) \/ (s \in Hex64Psks)

\* deserialize_password without the call of utils_wpa_psk_valid
deserialize_password_m(s) ==
    IF Len(s) > 0 /\ Len(s) < MinPasswordLen THEN [err |-> InvalidValue, val |-> NONE]
    ELSE [err |-> NONE, val |-> s]

\* Result<Option<String>>: [err, val]
deserialize_password(s) ==
    IF Len(s) > 0 /\ Len(s) < MinPasswordLen THEN [err |-> InvalidValue, val |-> NONE]
    ELSE IF ~utils_wpa_psk_valid(s) THEN [err |-> InvalidValue, val |-> NONE]
    ELSE [err |-> NONE, val |-> s]

\* string_empty_as_none keeping the empty string
string_empty_as_none_m(s) == s

\* serde_with::rust::string_empty_as_none
string_empty_as_none(s) == IF s = "" THEN NONE ELSE s

\* the enum BondMode and its Default
BondMode == {"RoundRobin", "ActiveBackup", "XOR", "Broadcast",
             "DynamicLinkAggregation", "TransmitLoadBalancing",
             "AdaptiveLoadBalancing"}
DefaultBondMode == "ActiveBackup"

\* HashSet::from_iter that drops the empty names
SetOfSeq_m(q) == {q[k] : k \in 1..Len(q)} \ {""}

\* HashSet::from_iter
SetOfSeq(q) == {q[k] : k \in 1..Len(q)}

NoBondOpts ==
    [bond_ifname |-> NONE, bond_mode |-> DefaultBondMode, slave_ifnames |-> {},
     ip4_addr |-> NONE]
NoWifiOpts ==
    [wireless_ifname |-> NONE, ssid |-> NONE, password |-> NONE, ip4_addr |-> NONE]

\* parse_bond_opts: a key that is unset in the document is NONE
parse_bond_opts(doc) ==
    IF doc.bond_mode # NONE /\ doc.bond_mode \notin BondMode
    THEN [err |-> InvalidValue, opts |-> NoBondOpts]
    ELSE [err |-> NONE,
          opts |-> [bond_ifname   |-> IF doc.bond_interface = NONE THEN NONE
                                      ELSE string_empty_as_none(doc.bond_interface),
                    bond_mode     |-> IF doc.bond_mode = NONE THEN DefaultBondMode
                                      ELSE doc.bond_mode,
                    slave_ifnames |-> SetOfSeq(doc.slave_interfaces),
                    ip4_addr      |-> IF doc.ip4_addr = NONE THEN NONE
                                      ELSE string_empty_as_none(doc.ip4_addr)]]

\* impl TryFrom<BondArgs> for BondOpts
BondOptsTryFrom(args) ==
    IF args.config
    THEN parse_bond_opts(args.doc)
    ELSE [err |-> NONE,
          opts |-> [bond_ifname   |-> args.ifname,
                    bond_mode     |-> IF args.bond_mode = NONE THEN DefaultBondMode
                                      ELSE args.bond_mode,
                    slave_ifnames |-> SetOfSeq(args.slave_ifnames),
                    ip4_addr      |-> args.ip4_addr]]

\* parse_access_point_opts / parse_station_opts (the two structs have the same fields)
parse_wifi_opts(doc) ==
    IF doc.password # NONE /\ deserialize_password(doc.password).err # NONE
    THEN [err |-> InvalidValue, opts |-> NoWifiOpts]
    ELSE [err |-> NONE,
          opts |-> [wireless_ifname |-> IF doc.wireless_interface = NONE THEN NONE
                                        ELSE string_empty_as_none(doc.wireless_interface),
                    ssid            |-> IF doc.ssid = NONE THEN NONE
                                        ELSE string_empty_as_none(doc.ssid),
                    password        |-> IF doc.password = NONE THEN NONE
                                        ELSE deserialize_password(doc.password).val,
                    ip4_addr        |-> IF doc.ip4_addr = NONE THEN NONE
                                        ELSE string_empty_as_none(doc.ip4_addr)]]

\* try_from filling the fields the config document leaves unset from the command line
WifiOptsTryFrom_m(args) ==
    IF args.config
    THEN [err |-> parse_wifi_opts(args.doc).err,
          opts |-> [f \in DOMAIN NoWifiOpts |->
                      IF parse_wifi_opts(args.doc).opts[f] = NONE THEN args[f]
                      ELSE parse_wifi_opts(args.doc).opts[f]]]
    ELSE [err |-> NONE,
          opts |-> [wireless_ifname |-> args.wireless_ifname,
                    ssid            |-> args.ssid,
                    password        |-> args.password,
                    ip4_addr        |-> args.ip4_addr]]

\* impl TryFrom<AccessPointArgs> for AccessPointOpts, TryFrom<StationArgs> for StationOpts
WifiOptsTryFrom(args) ==
    IF args.config
    THEN parse_wifi_opts(args.doc)
    ELSE [err |-> NONE,
          opts |-> [wireless_ifname |-> args.wireless_ifname,
                    ssid            |-> args.ssid,
                    password        |-> args.password,
                    ip4_addr        |-> args.ip4_addr]]

----------------------------------------------------------------------------
(* The backend (NetworkManager): what it may hold before the first invocation *)

BondIf  == "bond0"
OtherBondIf == "bond1"
Eth0    == "eth0"
Eth1    == "eth1"
Wlan0   == "wlan0"
Home    == "home"
OtherSsid == "other"
AllDevices == {Eth0, Eth1, Wlan0, BondIf, OtherBondIf}

StoredBond(ifname) ==
    [EmptyConnection EXCEPT !.type = SETTING_BOND_SETTING_NAME, !.id = ifname,
        !.ifname = ifname, !.bond_mode = "active-backup", !.miimon = "100",
        !.ip4_method = SETTING_IP4_CONFIG_METHOD_AUTO]
StoredWifi(ifname, mode, ssid) ==
    [EmptyConnection EXCEPT !.type = SETTING_WIRELESS_SETTING_NAME, !.id = ssid,
        !.ifname = ifname, !.wireless = TRUE, !.mode = mode, !.ssid = ssid,
        !.ip4_method = SETTING_IP4_CONFIG_METHOD_AUTO]

\* the connections the backend may already store, in its listing order (the backend
\* identifies a profile by its UUID, so two profiles may carry the same settings)
Catalogue ==
    << StoredBond(BondIf),
       create_wired_connection(Eth0, NONE),
       create_wired_connection(Eth0, BondIf),
       create_wired_connection(Eth0, OtherBondIf),
       create_wired_connection(Eth1, OtherBondIf),
       StoredWifi(Wlan0, SETTING_WIRELESS_MODE_AP, Home),
       StoredWifi(Wlan0, SETTING_WIRELESS_MODE_AP, OtherSsid),
       StoredWifi(Wlan0, SETTING_WIRELESS_MODE_INFRA, Home),
       StoredBond(BondIf) >>

\* the catalogue entries with index in S, as stored connections (uid = index)
RECURSIVE Pick(_, _)
Pick(S, i) ==
    IF i > Len(Catalogue) THEN <<>>
    ELSE (IF i \in S THEN <<[uid |-> i, conn |-> Catalogue[i]]>> ELSE <<>>)
         \o Pick(S, i + 1)

\* the active connections of the stored connections with uid in A, all activated
RECURSIVE PickActive(_, _)
PickActive(A, i) ==
    IF i > Len(Catalogue) THEN <<>>
    ELSE (IF i \in A THEN <<[conn |-> i, state |-> StateActivated]>> ELSE <<>>)
         \o PickActive(A, i + 1)

\* a device carries at most one active connection
OnePerDevice(A) ==
    \A a, b \in A : a # b => Catalogue[a].ifname # Catalogue[b].ifname

\* the connection types a subcommand deals with
BondTypes == {SETTING_BOND_SETTING_NAME, SETTING_WIRED_SETTING_NAME}
WifiTypes == {SETTING_WIRELESS_SETTING_NAME}

\* the catalogue entries of the given types
OfTypes(T) == {k \in 1..Len(Catalogue) : Catalogue[k].type \in T}

\* the backend states with the stored connections S (at most MaxInitConns of them),
\* any of them active (one per device, and only on an existing device), and
\* possibly one of the devices in D missing
BackendsOver(Idx, D) ==
    UNION { { [stored |-> Pick(S, 1), active |-> PickActive(A, 1),
               devices |-> AllDevices \ M] :
                A \in {X \in SUBSET S : OnePerDevice(X)
                                        /\ \A x \in X : Catalogue[x].ifname \notin M} } :
            S \in {T \in SUBSET Idx : Cardinality(T) <= MaxInitConns},
            M \in {{}} \cup {{d} : d \in D} }

\* the backend states the first invocation may find: bond and wired connections, or
\* wireless connections
InitialBackends ==
    BackendsOver(OfTypes(BondTypes), {Eth1}) \cup BackendsOver(OfTypes(WifiTypes), {Wlan0})

----------------------------------------------------------------------------
(* The backend's operations.  Each returns the backend's next state. *)

Backend == [stored |-> stored, active |-> active, devices |-> devices, nextUid |-> nextUid]

RECURSIVE SelectSeqIdx(_, _, _)
\* the subsequence of q at the indexes in Keep, from index i on
SelectSeqIdx(q, Keep, i) ==
    IF i > Len(q) THEN <<>>
    ELSE (IF i \in Keep THEN <<q[i]>> ELSE <<>>) \o SelectSeqIdx(q, Keep, i + 1)

IfnameOfActive(b, k) ==
    LET c == ConnOf(b.stored, b.active[k].conn) IN IF c = <<>> THEN NONE ELSE c[1].ifname
MasterOfActive(b, k) ==
    LET c == ConnOf(b.stored, b.active[k].conn) IN IF c = <<>> THEN NONE ELSE c[1].master

\* add_connection: the profile is stored under a fresh handle
BackendAdd(b, conn) ==
    [b EXCEPT !.stored = Append(@, [uid |-> b.nextUid, conn |-> conn]),
              !.nextUid = @ + 1]

\* deactivate_connection of active connection k; a bond takes its active slaves down
BackendDeactivate(b, k) ==
    LET c == ConnOf(b.stored, b.active[k].conn)
        cascade == {j \in 1..Len(b.active) :
                      /\ c # <<>>
                      /\ c[1].type = SETTING_BOND_SETTING_NAME
                      /\ MasterOfActive(b, j) # NONE
                      /\ MasterOfActive(b, j) = c[1].ifname}
    IN [b EXCEPT !.active =
            SelectSeqIdx(@, (1..Len(@)) \ ({k} \cup cascade), 1)]

\* activate_connection of stored connection uid on its device: whatever was active
\* on that device goes down, and the new active connection starts in state st
BackendActivate(b, uid, st) ==
    LET c == ConnOf(b.stored, uid)[1]
        keep == {j \in 1..Len(b.active) : IfnameOfActive(b, j) # c.ifname}
    IN [b EXCEPT !.active =
            Append(SelectSeqIdx(@, keep, 1), [conn |-> uid, state |-> st])]

\* delete of stored connection uid (its active connection, if any, goes with it)
BackendDelete(b, uid) ==
    [b EXCEPT !.stored = SelectSeq(@, LAMBDA e : e.uid # uid),
              !.active = SelectSeq(@, LAMBDA e : e.conn # uid)]

SetBackend(b) ==
    /\ stored' = b.stored
    /\ active' = b.active
    /\ devices' = b.devices
    /\ nextUid' = b.nextUid

\* one entry of the call log
Call(op, uid, ifname, master, ok) ==
    [op |-> op, uid |-> uid, ifname |-> ifname, master |-> master, ok |-> ok]
Query(op, ifname) == Call(op, NoHandle, ifname, NONE, TRUE)

Mutations == {"add", "activate", "deactivate", "delete"}
MutationsIn(log) == {k \in 1..Len(log) : log[k].op \in Mutations}

----------------------------------------------------------------------------
(* Invocations: the verb and the arguments the user gives *)

NoBondDoc == [bond_interface |-> NONE, bond_mode |-> NONE, slave_interfaces |-> <<>>,
              ip4_addr |-> NONE]
NoWifiDoc == [wireless_interface |-> NONE, ssid |-> NONE, password |-> NONE,
              ip4_addr |-> NONE]

SlaveLists == {<<>>, <<Eth0, "">>, <<Eth0, Eth1>>, <<Eth0, Eth0>>}

\* BondArgs from the command line
BondCliArgs ==
    { [config |-> FALSE, ifname |-> i, bond_mode |-> m, ip4_addr |-> NONE,
       slave_ifnames |-> sl, doc |-> NoBondDoc] :
         i \in {NONE, "", BondIf}, m \in {NONE, "RoundRobin"}, sl \in SlaveLists }
\* BondArgs with --config: the command-line fields are left unset
BondConfigArgs ==
    { [config |-> TRUE, ifname |-> NONE, bond_mode |-> NONE, ip4_addr |-> NONE,
       slave_ifnames |-> <<>>,
       doc |-> [bond_interface |-> i, bond_mode |-> m, slave_interfaces |-> sl,
                ip4_addr |-> NONE]] :
         i \in {"", BondIf}, m \in {"ActiveBackup", "UnexpectedMode"},
         sl \in {<<Eth0>>} }

CliPasswords    == {"short", "12345678"}
ConfigPasswords == {NONE, "", "short", "12345678"}

WifiCliArgs ==
    { [config |-> FALSE, ssid |-> sd, wireless_ifname |-> w, ip4_addr |-> NONE,
       password |-> pw, doc |-> NoWifiDoc] :
         sd \in {NONE, Home}, w \in {NONE, Wlan0}, pw \in CliPasswords }
WifiConfigArgs ==
    { [config |-> TRUE, ssid |-> NONE, wireless_ifname |-> NONE, ip4_addr |-> NONE,
       password |-> NONE,
       doc |-> [wireless_interface |-> w, ssid |-> sd, password |-> pw,
                ip4_addr |-> NONE]] :
         sd \in {Home}, w \in {"", Wlan0}, pw \in ConfigPasswords }

BondVerbs == {"create_bond", "delete_bond", "bond_status"}
WifiVerbs == {"create_access_point", "create_station", "delete_access_point",
              "access_point_status"}

Invocations ==
    { [verb |-> v, args |-> a] : v \in BondVerbs, a \in BondCliArgs \cup BondConfigArgs }
    \cup
    { [verb |-> v, args |-> a] : v \in WifiVerbs, a \in WifiCliArgs \cup WifiConfigArgs }

\* the iteration orders of a HashSet
Orders(S) ==
    {q \in [1..Cardinality(S) -> S] : \A x, y \in 1..Cardinality(S) : x # y => q[x] # q[y]}

\* what a status verb prints
NoReport == [name |-> NONE, type |-> NONE, state |-> NONE, slaves |-> <<>>,
             method |-> NONE, addrs |-> <<>>]

NoLoc == [conn |-> EmptyConnection, order |-> <<>>, i |-> 1, remote |-> NoHandle,
          slaves |-> <<>>, report |-> NoReport]
NoPrev == [verb |-> NONE, args |-> NoBondDoc, result |-> NONE, added |-> {}]
NoInv == [verb |-> NONE, args |-> NoBondDoc]

Init ==
    /\ \E b \in InitialBackends :
          /\ stored = b.stored
          /\ active = b.active
          /\ devices = b.devices
    /\ nextUid = Len(Catalogue) + 1
    /\ inv = NoInv
    /\ opts = NoBondOpts
    /\ pc = "idle"
    /\ result = NONE
    /\ calls = <<>>
    /\ loc = NoLoc
    /\ sender = FALSE
    /\ tasks = <<>>
    /\ chan = NONE
    /\ notifs = 0
    /\ observed = <<>>
    /\ snap = [stored |-> stored, active |-> active]
    /\ prev = NoPrev
    /\ callNo = 0

\* the invocation returns r
Return(r) ==
    /\ pc' = "done"
    /\ result' = r

\* main: the options are built from the arguments, then the verb runs
Begin(i) ==
    LET r == IF i.verb \in BondVerbs THEN BondOptsTryFrom(i.args)
             ELSE WifiOptsTryFrom(i.args)
    IN /\ inv' = i
       /\ callNo' = callNo + 1
       /\ calls' = <<>>
       /\ loc' = NoLoc
       /\ sender' = FALSE
       /\ tasks' = <<>>
       /\ chan' = NONE
       /\ notifs' = 0
       /\ observed' = <<>>
       /\ snap' = [stored |-> stored, active |-> active]
       /\ opts' = r.opts
       /\ IF r.err # NONE THEN Return(r.err)
          ELSE pc' = i.verb /\ result' = NONE
       /\ UNCHANGED backendVars

\* handles of the connections the invocation added
Added(log) == {log[k].uid : k \in {j \in 1..Len(log) : log[j].op = "add" /\ log[j].ok}}

\* the connection types of the subcommand a verb belongs to
TypesOfVerb(v) == IF v \in BondVerbs THEN BondTypes ELSE WifiTypes

\* the first invocation: a verb of the subcommand whose connections the backend holds
Start ==
    /\ pc = "idle"
    /\ \E i \in Invocations :
         /\ \A k \in 1..Len(stored) : stored[k].conn.type \in TypesOfVerb(i.verb)
         /\ Begin(i)
    /\ prev' = NoPrev

\* the same verb invoked again with identical arguments
Repeat ==
    /\ pc = "done"
    /\ callNo < MaxCalls
    /\ prev' = [verb |-> inv.verb, args |-> inv.args, result |-> result,
                added |-> Added(calls)]
    /\ Begin(inv)

----------------------------------------------------------------------------
(* create_bond (bond.rs) *)

\* lines 86-111: validation, the profile, the search for an existing bond connection
CreateBondCheck ==
    /\ pc = "create_bond"
    /\ UNCHANGED <<backendVars, waitVars, inv, opts, snap, prev, callNo>>
    /\ IF opts.bond_ifname = NONE
       THEN Return(MissingRequiredField) /\ UNCHANGED <<calls, loc>>
       ELSE IF opts.slave_ifnames = {}
       THEN Return(InvalidValue) /\ UNCHANGED <<calls, loc>>
       ELSE IF \E c \in opts.slave_ifnames : c = ""
       THEN Return(InvalidValue) /\ UNCHANGED <<calls, loc>>
       ELSE LET bond_conn == create_bond_connection(opts) IN
            IF bond_conn.err # NONE
            THEN Return(bond_conn.err) /\ UNCHANGED <<calls, loc>>
            ELSE /\ calls' = Append(calls, Query("connections", NONE))
                 /\ IF get_connection(stored, DeviceTypeBond, bond_conn.conn) # NoHandle
                    THEN Return(AlreadyExists) /\ UNCHANGED loc
                    ELSE /\ \E order \in Orders(opts.slave_ifnames) :
                                loc' = [NoLoc EXCEPT !.conn = bond_conn.conn,
                                                     !.order = order]
                         /\ pc' = "cb_scan"
                         /\ UNCHANGED result

\* lines 122-154, one iteration: the active standalone wired connection of the slave
\* interface is deactivated; an active slave wired connection aborts
CreateBondScan ==
    /\ pc = "cb_scan"
    /\ UNCHANGED <<waitVars, inv, opts, snap, prev, callNo>>
    /\ LET slave_ifname == loc.order[loc.i]
           existing_wired_conn == create_wired_connection(slave_ifname, NONE)
           existing_wired_conn_slave == create_wired_connection(slave_ifname, "")
           c  == get_active_connection(stored, active, DeviceTypeEthernet,
                                       existing_wired_conn)
           cs == get_active_connection(stored, active, DeviceTypeEthernet,
                                       existing_wired_conn_slave)
           next == IF loc.i < Len(loc.order) THEN "cb_scan" ELSE "cb_devices"
       IN IF c # NoHandle
          THEN \E ok \in BOOLEAN :
                 /\ calls' = calls \o <<Query("active_connections", NONE),
                                        Call("deactivate", active[c].conn,
                                             slave_ifname, NONE, ok)>>
                 /\ IF ok
                    THEN /\ SetBackend(BackendDeactivate(Backend, c))
                         /\ loc' = [loc EXCEPT !.i = @ + 1]
                         /\ pc' = next
                         /\ UNCHANGED result
                    ELSE /\ Return(BackendOperationFailed)
                         /\ UNCHANGED <<backendVars, loc>>
          ELSE /\ calls' = calls \o <<Query("active_connections", NONE),
                                      Query("active_connections", NONE)>>
               /\ UNCHANGED backendVars
               /\ IF cs # NoHandle
                  THEN Return(InterfaceConflict) /\ UNCHANGED loc
                  ELSE /\ loc' = [loc EXCEPT !.i = @ + 1]
                       /\ pc' = next
                       /\ UNCHANGED result

\* index of the first slave interface without a device (0 when all have one)
RECURSIVE FirstMissingDevice(_, _, _)
FirstMissingDevice(order, devs, i) ==
    IF i > Len(order) THEN 0
    ELSE IF order[i] \notin devs THEN i
    ELSE FirstMissingDevice(order, devs, i + 1)

\* the device_by_iface calls for order[1..n]
DeviceQueries(order, n) == [k \in 1..n |-> Query("device_by_iface", order[k])]

\* lines 157-169: every slave interface must have a device
CreateBondDevices ==
    /\ pc = "cb_devices"
    /\ UNCHANGED <<backendVars, waitVars, inv, opts, snap, prev, callNo>>
    /\ LET m == FirstMissingDevice(loc.order, devices, 1) IN
       IF m # 0
       THEN /\ calls' = calls \o DeviceQueries(loc.order, m)
            /\ Return(NotFound)
            /\ UNCHANGED loc
       ELSE /\ calls' = calls \o DeviceQueries(loc.order, Len(loc.order))
            /\ loc' = [loc EXCEPT !.i = 1]
            /\ pc' = "cb_add_bond"
            /\ UNCHANGED result

\* line 175: the bond connection is added
CreateBondAdd ==
    /\ pc = "cb_add_bond"
    /\ UNCHANGED <<waitVars, inv, opts, snap, prev, callNo, loc>>
    /\ \E ok \in BOOLEAN :
         /\ calls' = Append(calls, Call("add", IF ok THEN nextUid ELSE NoHandle,
                                        loc.conn.ifname, loc.conn.master, ok))
         /\ IF ok
            THEN /\ SetBackend(BackendAdd(Backend, loc.conn))
                 /\ pc' = "cb_add_slave"
                 /\ UNCHANGED result
            ELSE /\ Return(BackendOperationFailed)
                 /\ UNCHANGED backendVars

\* the slave add tried again after a failure
CreateBondAddSlave_m ==
    /\ pc = "cb_add_slave"
    /\ UNCHANGED <<waitVars, inv, opts, snap, prev, callNo>>
    /\ LET slave_ifname == loc.order[loc.i]
           wired_conn == create_wired_connection(slave_ifname, opts.bond_ifname)
       IN \E ok \in BOOLEAN :
            /\ calls' = Append(calls, Call("add", IF ok THEN nextUid ELSE NoHandle,
                                           wired_conn.ifname, wired_conn.master, ok))
            /\ IF ok
               THEN /\ SetBackend(BackendAdd(Backend, wired_conn))
                    /\ loc' = [loc EXCEPT !.remote = nextUid]
                    /\ pc' = "cb_activate_slave"
                    /\ UNCHANGED result
               ELSE /\ pc' = "cb_add_slave"
                    /\ UNCHANGED <<backendVars, loc, result>>

\* lines 179-182: the wired slave connection of the next slave interface is added
CreateBondAddSlave ==
    /\ pc = "cb_add_slave"
    /\ UNCHANGED <<waitVars, inv, opts, snap, prev, callNo>>
    /\ LET slave_ifname == loc.order[loc.i]
           wired_conn == create_wired_connection(slave_ifname, opts.bond_ifname)
       IN \E ok \in BOOLEAN :
            /\ calls' = Append(calls, Call("add", IF ok THEN nextUid ELSE NoHandle,
                                           wired_conn.ifname, wired_conn.master, ok))
            /\ IF ok
               THEN /\ SetBackend(BackendAdd(Backend, wired_conn))
                    /\ loc' = [loc EXCEPT !.remote = nextUid]
                    /\ pc' = "cb_activate_slave"
                    /\ UNCHANGED result
               ELSE /\ Return(BackendOperationFailed)
                    /\ UNCHANGED <<backendVars, loc>>

\* the stored bond connection with this interface name that is not active (0 if none)
InactiveMaster(b, ifname) ==
    LET M == {k \in 1..Len(b.stored) :
                /\ b.stored[k].conn.type = SETTING_BOND_SETTING_NAME
                /\ b.stored[k].conn.ifname = ifname
                /\ \A j \in 1..Len(b.active) : b.active[j].conn # b.stored[k].uid}
    IN IF M = {} THEN NoHandle ELSE b.stored[CHOOSE k \in M : \A j \in M : k <= j].uid

\* the states in which the backend may report a connection it has just activated
ActivationStates == {StateUnknown, StateActivating, StateActivated, StateDeactivated}

\* the state changes the backend makes to an active connection
NextStates(st) ==
    CASE st = StateUnknown      -> {StateActivating}
      [] st = StateActivating   -> {StateActivated, StateDeactivating, StateDeactivated,
                                    StateUnknown}
      [] st = StateActivated    -> {StateDeactivating}
      [] st = StateDeactivating -> {StateDeactivated}
      [] OTHER                  -> {}

\* the slave connections activated on the devices taken in the reverse order
CreateBondActivateSlave_m ==
    /\ pc = "cb_activate_slave"
    /\ UNCHANGED <<waitVars, inv, opts, snap, prev, callNo>>
    /\ LET wired_dev == loc.order[Len(loc.order) + 1 - loc.i]
           next == IF loc.i < Len(loc.order) THEN "cb_add_slave" ELSE "cb_resolve"
       IN \E ok \in BOOLEAN :
            /\ calls' = Append(calls, Call("activate", loc.remote, wired_dev, NONE, ok))
            /\ IF ok
               THEN /\ LET b1 == BackendActivate(Backend, loc.remote, StateActivated)
                           m  == InactiveMaster(b1, opts.bond_ifname)
                       IN \/ SetBackend(b1)
                          \/ /\ m # NoHandle
                             /\ \E st \in ActivationStates :
                                   SetBackend(BackendActivate(b1, m, st))
                    /\ loc' = [loc EXCEPT !.i = @ + 1]
                    /\ pc' = next
                    /\ UNCHANGED result
               ELSE /\ Return(BackendOperationFailed)
                    /\ UNCHANGED <<backendVars, loc>>

\* the slave connection deleted again when its activation fails
CreateBondActivateSlave_undo ==
    /\ pc = "cb_activate_slave"
    /\ UNCHANGED <<waitVars, inv, opts, snap, prev, callNo>>
    /\ LET wired_dev == loc.order[loc.i]
           next == IF loc.i < Len(loc.order) THEN "cb_add_slave" ELSE "cb_resolve"
       IN \E ok \in BOOLEAN :
            /\ calls' = IF ok
                        THEN Append(calls, Call("activate", loc.remote, wired_dev, NONE,
                                                ok))
                        ELSE calls \o
                             <<Call("activate", loc.remote, wired_dev, NONE, ok),
                               Call("delete", loc.remote, wired_dev, NONE, TRUE)>>
            /\ IF ok
               THEN /\ LET b1 == BackendActivate(Backend, loc.remote, StateActivated)
                           m  == InactiveMaster(b1, opts.bond_ifname)
                       IN \/ SetBackend(b1)
                          \/ /\ m # NoHandle
                             /\ \E st \in ActivationStates :
                                   SetBackend(BackendActivate(b1, m, st))
                    /\ loc' = [loc EXCEPT !.i = @ + 1]
                    /\ pc' = next
                    /\ UNCHANGED result
               ELSE /\ Return(BackendOperationFailed)
                    /\ SetBackend(BackendDelete(Backend, loc.remote))
                    /\ UNCHANGED loc


\* lines 194-196: the slave connection is activated on the device of its interface;
\* the backend may bring the master bond up with it
CreateBondActivateSlave ==
    /\ pc = "cb_activate_slave"
    /\ UNCHANGED <<waitVars, inv, opts, snap, prev, callNo>>
    /\ LET wired_dev == loc.order[loc.i]
           next == IF loc.i < Len(loc.order) THEN "cb_add_slave" ELSE "cb_resolve"
       IN \E ok \in BOOLEAN :
            /\ calls' = Append(calls, Call("activate", loc.remote, wired_dev, NONE, ok))
            /\ IF ok
               THEN /\ LET b1 == BackendActivate(Backend, loc.remote, StateActivated)
                           m  == InactiveMaster(b1, opts.bond_ifname)
                       IN \/ SetBackend(b1)
                          \/ /\ m # NoHandle
                             /\ \E st \in ActivationStates :
                                   SetBackend(BackendActivate(b1, m, st))
                    /\ loc' = [loc EXCEPT !.i = @ + 1]
                    /\ pc' = next
                    /\ UNCHANGED result
               ELSE /\ Return(BackendOperationFailed)
                    /\ UNCHANGED <<backendVars, loc>>

----------------------------------------------------------------------------
(* wait_for_connection_to_activate (connection.rs) and the inlined wait of        *)
(* create_access_point                                                            *)

\* the state of the active connection of stored connection uid
\* (StateDeactivated once the backend has dropped it)
StateOf(actives, uid) ==
    IF \E k \in 1..Len(actives) : actives[k].conn = uid
    THEN actives[CHOOSE k \in 1..Len(actives) : actives[k].conn = uid].state
    ELSE StateDeactivated

\* lines 299-307: an activated connection returns at once, otherwise the sender is
\* created and the state-change handler connected
wait_for_connection_to_activate(uid) ==
    /\ observed' = <<StateOf(active, uid)>>
    /\ IF StateOf(active, uid) = StateActivated
       THEN /\ Return(Ok)
            /\ UNCHANGED <<sender, tasks, chan, notifs, loc>>
       ELSE /\ sender' = TRUE
            /\ loc' = [loc EXCEPT !.remote = uid]
            /\ pc' = "wait"
            /\ UNCHANGED <<result, tasks, chan, notifs>>

\* lines 199-209: the bond's active connection is looked up and awaited
CreateBondResolve ==
    /\ pc = "cb_resolve"
    /\ UNCHANGED <<backendVars, inv, opts, snap, prev, callNo>>
    /\ calls' = Append(calls, Query("active_connections", NONE))
    /\ LET c == get_active_connection(stored, active, DeviceTypeBond, loc.conn) IN
       IF c = NoHandle
       THEN Return(ActivationFailed) /\ UNCHANGED <<waitVars, loc>>
       ELSE wait_for_connection_to_activate(active[c].conn)

\* the backend changes the state of the awaited active connection and emits
\* state-changed, for which the handler spawns a task
StateChanged ==
    /\ pc = "wait"
    /\ notifs < MaxNotifs
    /\ \E k \in 1..Len(active) :
         /\ active[k].conn = loc.remote
         /\ \E st \in NextStates(active[k].state) :
              /\ active' = [active EXCEPT ![k].state = st]
              /\ tasks' = Append(tasks, st)
    /\ notifs' = notifs + 1
    /\ UNCHANGED <<stored, devices, nextUid, inv, opts, pc, result, calls, loc,
                   sender, chan, observed, snap, prev, callNo>>

\* the exit value with every state but Activating and Deactivated taken for success
ExitOf_m(state) ==
    CASE state = StateActivating  -> NONE
      [] state = StateDeactivated -> ActivationFailed
      [] OTHER                    -> Ok

\* the exit value with Activating taken for a failure, as a handler that gives up
\* on a connection still activating would compute it
ExitOf_giveup(state) ==
    CASE state = StateActivated -> Ok
      [] OTHER                  -> ActivationFailed

\* the exit value the handler's task computes for a state
ExitOf(state) ==
    CASE state = StateActivating -> NONE
      [] state = StateActivated  -> Ok
      [] OTHER                   -> ActivationFailed

\* the task sending every exit value, the sender never taken
HandleStateChanged_m ==
    /\ pc = "wait"
    /\ tasks # <<>>
    /\ tasks' = Tail(tasks)
    /\ observed' = Append(observed, Head(tasks))
    /\ IF ExitOf(Head(tasks)) # NONE
       THEN chan' = ExitOf(Head(tasks)) /\ UNCHANGED sender
       ELSE UNCHANGED <<sender, chan>>
    /\ UNCHANGED <<backendVars, inv, opts, pc, result, calls, loc, notifs, snap,
                   prev, callNo>>

\* lines 310-330: the spawned task runs; the first exit value takes the sender
HandleStateChanged ==
    /\ pc = "wait"
    /\ tasks # <<>>
    /\ tasks' = Tail(tasks)
    /\ observed' = Append(observed, Head(tasks))
    /\ IF ExitOf(Head(tasks)) # NONE /\ sender
       THEN sender' = FALSE /\ chan' = ExitOf(Head(tasks))
       ELSE UNCHANGED <<sender, chan>>
    /\ UNCHANGED <<backendVars, inv, opts, pc, result, calls, loc, notifs, snap,
                   prev, callNo>>

\* line 333: receiver.await yields the value sent; the tasks not yet run are
\* dropped with the main context
WaitReturn ==
    /\ pc = "wait"
    /\ chan # NONE
    /\ Return(chan)
    /\ tasks' = <<>>
    /\ notifs' = 0
    /\ UNCHANGED <<backendVars, sender, chan, observed, inv, opts, calls, loc, snap,
                   prev, callNo>>

----------------------------------------------------------------------------
(* create_access_point (access_point.rs) *)

\* impl From<AccessPointOpts> for StationOpts, and the Into used by create_station
WifiOptsInto(o) ==
    [wireless_ifname |-> o.wireless_ifname, ssid |-> o.ssid, password |-> o.password,
     ip4_addr |-> o.ip4_addr]

\* deactivate_connection_future(active[c]) issued by the running verb, then `next`
DeactivateThen(c, ifname, next) ==
    \E ok \in BOOLEAN :
      /\ calls' = calls \o <<Query("active_connections", NONE),
                             Call("deactivate", active[c].conn, ifname, NONE, ok)>>
      /\ IF ok
         THEN /\ SetBackend(BackendDeactivate(Backend, c))
              /\ pc' = next
              /\ UNCHANGED result
         ELSE /\ Return(BackendOperationFailed)
              /\ UNCHANGED backendVars

\* create_access_point going on to the add without deactivating the station found
CreateApCheck_m ==
    /\ pc = "create_access_point"
    /\ UNCHANGED <<waitVars, inv, opts, snap, prev, callNo>>
    /\ IF opts.wireless_ifname = NONE \/ opts.ssid = NONE
       THEN Return(MissingRequiredField) /\ UNCHANGED <<backendVars, calls, loc>>
       ELSE LET ap_conn == create_access_point_connection(opts) IN
            IF ap_conn.err # NONE
            THEN Return(ap_conn.err) /\ UNCHANGED <<backendVars, calls, loc>>
            ELSE IF get_connection(stored, DeviceTypeWifi, ap_conn.conn) # NoHandle
            THEN /\ calls' = Append(calls, Query("connections", NONE))
                 /\ Return(AlreadyExists)
                 /\ UNCHANGED <<backendVars, loc>>
            ELSE LET sta_conn == create_sta_connection(WifiOptsInto(opts)) IN
                 IF sta_conn.err # NONE
                 THEN /\ calls' = Append(calls, Query("connections", NONE))
                      /\ Return(sta_conn.err)
                      /\ UNCHANGED <<backendVars, loc>>
                 ELSE LET c == get_active_connection(stored, active, DeviceTypeWifi,
                                                     sta_conn.conn)
                      IN /\ loc' = [NoLoc EXCEPT !.conn = ap_conn.conn]
                         /\ IF c # NoHandle /\ FALSE
                            THEN /\ \E ok \in BOOLEAN :
                                      /\ calls' = calls \o
                                           <<Query("connections", NONE),
                                             Query("active_connections", NONE),
                                             Call("deactivate", active[c].conn,
                                                  opts.wireless_ifname, NONE, ok)>>
                                      /\ IF ok
                                         THEN /\ SetBackend(BackendDeactivate(Backend, c))
                                              /\ pc' = "ap_add"
                                              /\ UNCHANGED result
                                         ELSE /\ Return(BackendOperationFailed)
                                              /\ UNCHANGED backendVars
                            ELSE /\ calls' = calls \o
                                      <<Query("connections", NONE),
                                        Query("active_connections", NONE)>>
                                 /\ pc' = "ap_add"
                                 /\ UNCHANGED <<backendVars, result>>

\* lines 72-114: validation, the profile, the search for an existing access point,
\* and the deactivation of an active station connection on the interface
CreateApCheck ==
    /\ pc = "create_access_point"
    /\ UNCHANGED <<waitVars, inv, opts, snap, prev, callNo>>
    /\ IF opts.wireless_ifname = NONE \/ opts.ssid = NONE
       THEN Return(MissingRequiredField) /\ UNCHANGED <<backendVars, calls, loc>>
       ELSE LET ap_conn == create_access_point_connection(opts) IN
            IF ap_conn.err # NONE
            THEN Return(ap_conn.err) /\ UNCHANGED <<backendVars, calls, loc>>
            ELSE IF get_connection(stored, DeviceTypeWifi, ap_conn.conn) # NoHandle
            THEN /\ calls' = Append(calls, Query("connections", NONE))
                 /\ Return(AlreadyExists)
                 /\ UNCHANGED <<backendVars, loc>>
            ELSE LET sta_conn == create_sta_connection(WifiOptsInto(opts)) IN
                 IF sta_conn.err # NONE
                 THEN /\ calls' = Append(calls, Query("connections", NONE))
                      /\ Return(sta_conn.err)
                      /\ UNCHANGED <<backendVars, loc>>
                 ELSE LET c == get_active_connection(stored, active, DeviceTypeWifi,
                                                     sta_conn.conn)
                      IN /\ loc' = [NoLoc EXCEPT !.conn = ap_conn.conn]
                         /\ IF c # NoHandle
                            THEN /\ \E ok \in BOOLEAN :
                                      /\ calls' = calls \o
                                           <<Query("connections", NONE),
                                             Query("active_connections", NONE),
                                             Call("deactivate", active[c].conn,
                                                  opts.wireless_ifname, NONE, ok)>>
                                      /\ IF ok
                                         THEN /\ SetBackend(BackendDeactivate(Backend, c))
                                              /\ pc' = "ap_add"
                                              /\ UNCHANGED result
                                         ELSE /\ Return(BackendOperationFailed)
                                              /\ UNCHANGED backendVars
                            ELSE /\ calls' = calls \o
                                      <<Query("connections", NONE),
                                        Query("active_connections", NONE)>>
                                 /\ pc' = "ap_add"
                                 /\ UNCHANGED <<backendVars, result>>

\* device_by_iface, then add_connection_future of the profile in loc.conn
DeviceThenAdd(ifname, next) ==
    IF ifname \notin devices
    THEN /\ calls' = Append(calls, Query("device_by_iface", ifname))
         /\ Return(NotFound)
         /\ UNCHANGED <<backendVars, loc>>
    ELSE \E ok \in BOOLEAN :
           /\ calls' = calls \o <<Query("device_by_iface", ifname),
                                  Call("add", IF ok THEN nextUid ELSE NoHandle,
                                       loc.conn.ifname, loc.conn.master, ok)>>
           /\ IF ok
              THEN /\ SetBackend(BackendAdd(Backend, loc.conn))
                   /\ loc' = [loc EXCEPT !.remote = nextUid]
                   /\ pc' = next
                   /\ UNCHANGED result
              ELSE /\ Return(BackendOperationFailed)
                   /\ UNCHANGED <<backendVars, loc>>

\* lines 116-127: the wireless device must exist; the access point is added
CreateApAdd ==
    /\ pc = "ap_add"
    /\ UNCHANGED <<waitVars, inv, opts, snap, prev, callNo>>
    /\ DeviceThenAdd(opts.wireless_ifname, "ap_activate")

\* lines 130-160: the access point is activated, the sender created and the
\* state-change handler connected (the state at that moment is not read)
CreateApActivate ==
    /\ pc = "ap_activate"
    /\ UNCHANGED <<inv, opts, snap, prev, callNo, loc, tasks, chan, notifs, observed>>
    /\ \E ok \in BOOLEAN :
         /\ calls' = Append(calls, Call("activate", loc.remote, opts.wireless_ifname,
                                        NONE, ok))
         /\ IF ok
            THEN /\ \E st \in ActivationStates :
                      SetBackend(BackendActivate(Backend, loc.remote, st))
                 /\ sender' = TRUE
                 /\ pc' = "wait"
                 /\ UNCHANGED result
            ELSE /\ Return(BackendOperationFailed)
                 /\ UNCHANGED <<backendVars, sender>>

----------------------------------------------------------------------------
(* create_station (station.rs) *)

\* lines 79-115: validation, both profiles, and the deactivation of an active
\* station connection matching the station profile
CreateStaCheck ==
    /\ pc = "create_station"
    /\ UNCHANGED <<waitVars, inv, opts, snap, prev, callNo>>
    /\ IF opts.wireless_ifname = NONE \/ opts.ssid = NONE
       THEN Return(MissingRequiredField) /\ UNCHANGED <<backendVars, calls, loc>>
       ELSE LET sta_conn == create_sta_connection(opts)
                ap_conn  == create_access_point_connection(WifiOptsInto(opts))
            IN
            IF sta_conn.err # NONE
            THEN Return(sta_conn.err) /\ UNCHANGED <<backendVars, calls, loc>>
            ELSE IF ap_conn.err # NONE
            THEN Return(ap_conn.err) /\ UNCHANGED <<backendVars, calls, loc>>
            ELSE LET c == get_active_connection(stored, active, DeviceTypeWifi,
                                                sta_conn.conn)
                 IN /\ loc' = [NoLoc EXCEPT !.conn = sta_conn.conn]
                    /\ IF c # NoHandle
                       THEN DeactivateThen(c, opts.wireless_ifname, "sta_ap")
                       ELSE /\ calls' = Append(calls, Query("active_connections", NONE))
                            /\ pc' = "sta_ap"
                            /\ UNCHANGED <<backendVars, result>>

\* lines 118-130: an active connection matching the access-point profile built from
\* the same options is deactivated
CreateStaPreempt ==
    /\ pc = "sta_ap"
    /\ UNCHANGED <<waitVars, inv, opts, snap, prev, callNo, loc>>
    /\ LET ap_conn == create_access_point_connection(WifiOptsInto(opts))
           c == get_active_connection(stored, active, DeviceTypeWifi, ap_conn.conn)
       IN IF c # NoHandle
          THEN DeactivateThen(c, opts.wireless_ifname, "sta_add")
          ELSE /\ calls' = Append(calls, Query("active_connections", NONE))
               /\ pc' = "sta_add"
               /\ UNCHANGED <<backendVars, result>>

\* lines 132-143: the wireless device must exist; the station connection is added
CreateStaAdd ==
    /\ pc = "sta_add"
    /\ UNCHANGED <<waitVars, inv, opts, snap, prev, callNo>>
    /\ DeviceThenAdd(opts.wireless_ifname, "sta_activate")

\* lines 146-157: the station connection is activated and awaited
CreateStaActivate ==
    /\ pc = "sta_activate"
    /\ UNCHANGED <<inv, opts, snap, prev, callNo>>
    /\ \E ok \in BOOLEAN :
         /\ calls' = Append(calls, Call("activate", loc.remote, opts.wireless_ifname,
                                        NONE, ok))
         /\ IF ok
            THEN \E st \in ActivationStates :
                   /\ SetBackend(BackendActivate(Backend, loc.remote, st))
                   /\ observed' = <<st>>
                   /\ IF st = StateActivated
                      THEN Return(Ok) /\ UNCHANGED <<sender, tasks, chan, notifs, loc>>
                      ELSE /\ sender' = TRUE
                           /\ pc' = "wait"
                           /\ UNCHANGED <<result, tasks, chan, notifs, loc>>
            ELSE /\ Return(BackendOperationFailed)
                 /\ UNCHANGED <<backendVars, waitVars, loc>>

----------------------------------------------------------------------------
(* delete_bond and bond_status (bond.rs) *)

\* the interface names of a sequence of stored connections, the unnamed ones left out
RECURSIVE IfnamesOf(_)
IfnamesOf(conns) ==
    IF conns = <<>> THEN <<>>
    ELSE (IF Head(conns).conn.ifname # NONE THEN <<Head(conns).conn.ifname>> ELSE <<>>)
         \o IfnamesOf(Tail(conns))

\* lines 213-251: validation, the profile, the search for the stored bond connection,
\* and the deactivation of the active bond connection
DeleteBondCheck ==
    /\ pc = "delete_bond"
    /\ UNCHANGED <<waitVars, inv, opts, snap, prev, callNo>>
    /\ IF opts.bond_ifname = NONE
       THEN Return(MissingRequiredField) /\ UNCHANGED <<backendVars, calls, loc>>
       ELSE IF \E c \in opts.slave_ifnames : c = ""
       THEN Return(InvalidValue) /\ UNCHANGED <<backendVars, calls, loc>>
       ELSE LET bond_conn == create_bond_connection(opts) IN
            IF bond_conn.err # NONE
            THEN Return(bond_conn.err) /\ UNCHANGED <<backendVars, calls, loc>>
            ELSE LET r == get_connection(stored, DeviceTypeBond, bond_conn.conn)
                     c == get_active_connection(stored, active, DeviceTypeBond,
                                                bond_conn.conn)
                 IN IF r = NoHandle
                    THEN /\ calls' = Append(calls, Query("connections", NONE))
                         /\ Return(NotFound)
                         /\ UNCHANGED <<backendVars, loc>>
                    ELSE /\ loc' = [NoLoc EXCEPT !.conn = bond_conn.conn, !.remote = r]
                         /\ IF c # NoHandle
                            THEN \E ok \in BOOLEAN :
                                   /\ calls' = calls \o
                                        <<Query("connections", NONE),
                                          Query("active_connections", NONE),
                                          Call("deactivate", active[c].conn,
                                               opts.bond_ifname, NONE, ok)>>
                                   /\ IF ok
                                      THEN /\ SetBackend(BackendDeactivate(Backend, c))
                                           /\ pc' = "db_delete"
                                           /\ UNCHANGED result
                                      ELSE /\ Return(BackendOperationFailed)
                                           /\ UNCHANGED backendVars
                            ELSE /\ calls' = calls \o
                                      <<Query("connections", NONE),
                                        Query("active_connections", NONE)>>
                                 /\ pc' = "db_delete"
                                 /\ UNCHANGED <<backendVars, result>>

\* lines 253-269: the stored bond connection is deleted, then the slave connections
\* of the bond interface are listed
DeleteBondDelete ==
    /\ pc = "db_delete"
    /\ UNCHANGED <<waitVars, inv, opts, snap, prev, callNo>>
    /\ \E ok \in BOOLEAN :
         IF ok
         THEN LET b1 == BackendDelete(Backend, loc.remote)
                  slave_conns == get_slave_connections(b1.stored, opts.bond_ifname,
                                                       DeviceTypeEthernet)
              IN /\ SetBackend(b1)
                 /\ calls' = calls \o
                      <<Call("delete", loc.remote, opts.bond_ifname, NONE, TRUE),
                        Query("connections", NONE)>>
                 /\ IF opts.slave_ifnames = {}
                    THEN /\ loc' = [loc EXCEPT !.slaves = IfnamesOf(slave_conns)]
                         /\ Return(Ok)
                    ELSE /\ \E order \in Orders(opts.slave_ifnames) :
                              loc' = [loc EXCEPT !.slaves = IfnamesOf(slave_conns),
                                                 !.order = order, !.i = 1]
                         /\ pc' = "db_slaves"
                         /\ UNCHANGED result
         ELSE /\ calls' = Append(calls, Call("delete", loc.remote, opts.bond_ifname,
                                             NONE, FALSE))
              /\ Return(BackendOperationFailed)
              /\ UNCHANGED <<backendVars, loc>>

\* the slave loop deleting the first stored wired connection on the requested
\* interface, whatever its master
DeleteBondSlave_m ==
    /\ pc = "db_slaves"
    /\ UNCHANGED <<waitVars, inv, opts, snap, prev, callNo>>
    /\ LET slave_ifname == loc.order[loc.i]
           hits == {k \in 1..Len(stored) :
                      /\ stored[k].conn.type = SETTING_WIRED_SETTING_NAME
                      /\ stored[k].conn.ifname = slave_ifname}
       IN /\ loc' = [loc EXCEPT !.i = @ + 1]
          /\ IF loc.i >= Len(loc.order) THEN Return(Ok) ELSE UNCHANGED <<pc, result>>
          /\ IF hits = {}
             THEN UNCHANGED <<backendVars, calls>>
             ELSE LET r == stored[CHOOSE k \in hits : \A j \in hits : k <= j].uid IN
                  /\ calls' = Append(calls, Call("delete", r, slave_ifname,
                                                 opts.bond_ifname, TRUE))
                  /\ SetBackend(BackendDelete(Backend, r))

\* lines 271-297, one iteration: the stored wired connection of a requested slave
\* interface enslaved to the bond is deleted; an interface that is not among the
\* slaves of the bond is skipped
DeleteBondSlave ==
    /\ pc = "db_slaves"
    /\ UNCHANGED <<waitVars, inv, opts, snap, prev, callNo>>
    /\ LET slave_ifname == loc.order[loc.i]
           wired_conn == create_wired_connection(slave_ifname, opts.bond_ifname)
           r == get_connection(stored, DeviceTypeEthernet, wired_conn)
           last == loc.i >= Len(loc.order)
           Continue == /\ loc' = [loc EXCEPT !.i = @ + 1]
                       /\ IF last THEN Return(Ok) ELSE UNCHANGED <<pc, result>>
       IN IF \A k \in 1..Len(loc.slaves) : loc.slaves[k] # slave_ifname
          THEN Continue /\ UNCHANGED <<backendVars, calls>>
          ELSE IF r = NoHandle
          THEN /\ calls' = Append(calls, Query("connections", NONE))
               /\ Continue
               /\ UNCHANGED backendVars
          ELSE \E ok \in BOOLEAN :
                 /\ calls' = calls \o
                      <<Query("connections", NONE),
                        Call("delete", r, slave_ifname, opts.bond_ifname, ok)>>
                 /\ IF ok
                    THEN SetBackend(BackendDelete(Backend, r)) /\ Continue
                    ELSE /\ Return(BackendOperationFailed)
                         /\ UNCHANGED <<backendVars, loc>>

\* the "(static)" lines of a status report: the addresses of the stored profile
RECURSIVE StaticAddrs(_)
StaticAddrs(addrs) ==
    IF addrs = <<>> THEN <<>>
    ELSE <<[addr |-> Head(addrs), kind |-> "static"]>> \o StaticAddrs(Tail(addrs))

\* bond_status assuming the state unknown until an active connection is found
BondStatus_m ==
    /\ pc = "bond_status"
    /\ UNCHANGED <<backendVars, waitVars, inv, opts, snap, prev, callNo>>
    /\ IF opts.bond_ifname = NONE
       THEN Return(MissingRequiredField) /\ UNCHANGED <<calls, loc>>
       ELSE IF \E c \in opts.slave_ifnames : c = ""
       THEN Return(InvalidValue) /\ UNCHANGED <<calls, loc>>
       ELSE LET bond_conn == create_bond_connection(opts) IN
            IF bond_conn.err # NONE
            THEN Return(bond_conn.err) /\ UNCHANGED <<calls, loc>>
            ELSE LET c == get_active_connection(stored, active, DeviceTypeBond,
                                                bond_conn.conn)
                     conn_state == IF c # NoHandle THEN active[c].state
                                   ELSE StateUnknown
                     r == get_connection(stored, DeviceTypeBond, bond_conn.conn)
                     remote == ConnOf(stored, r)[1]
                     slave_conns == get_slave_connections(stored, opts.bond_ifname,
                                                          DeviceTypeEthernet)
                 IN IF r = NoHandle
                    THEN /\ calls' = calls \o <<Query("active_connections", NONE),
                                                Query("connections", NONE)>>
                         /\ Return(NotFound)
                         /\ UNCHANGED loc
                    ELSE IF remote.ip4_method = NONE
                    THEN /\ calls' = calls \o <<Query("active_connections", NONE),
                                                Query("connections", NONE)>>
                         /\ Return(MissingSetting)
                         /\ UNCHANGED loc
                    ELSE /\ calls' = calls \o <<Query("active_connections", NONE),
                                                Query("connections", NONE),
                                                Query("connections", NONE)>>
                         /\ loc' = [NoLoc EXCEPT
                                      !.conn = bond_conn.conn, !.remote = r,
                                      !.report = [name   |-> opts.bond_ifname,
                                                  type   |-> "bond",
                                                  state  |-> conn_state,
                                                  slaves |-> IfnamesOf(slave_conns),
                                                  method |-> remote.ip4_method,
                                                  addrs  |-> StaticAddrs(remote.ip4_addrs)]]
                         /\ Return(Ok)

\* lines 304-440: the state of the active bond connection, the stored bond connection,
\* its IPv4 settings and its slave connections are printed (the live IPv4
\* configuration of the active connection is absent)
BondStatus ==
    /\ pc = "bond_status"
    /\ UNCHANGED <<backendVars, waitVars, inv, opts, snap, prev, callNo>>
    /\ IF opts.bond_ifname = NONE
       THEN Return(MissingRequiredField) /\ UNCHANGED <<calls, loc>>
       ELSE IF \E c \in opts.slave_ifnames : c = ""
       THEN Return(InvalidValue) /\ UNCHANGED <<calls, loc>>
       ELSE LET bond_conn == create_bond_connection(opts) IN
            IF bond_conn.err # NONE
            THEN Return(bond_conn.err) /\ UNCHANGED <<calls, loc>>
            ELSE LET c == get_active_connection(stored, active, DeviceTypeBond,
                                                bond_conn.conn)
                     conn_state == IF c # NoHandle THEN active[c].state
                                   ELSE StateDeactivated
                     r == get_connection(stored, DeviceTypeBond, bond_conn.conn)
                     remote == ConnOf(stored, r)[1]
                     slave_conns == get_slave_connections(stored, opts.bond_ifname,
                                                          DeviceTypeEthernet)
                 IN IF r = NoHandle
                    THEN /\ calls' = calls \o <<Query("active_connections", NONE),
                                                Query("connections", NONE)>>
                         /\ Return(NotFound)
                         /\ UNCHANGED loc
                    ELSE IF remote.ip4_method = NONE
                    THEN /\ calls' = calls \o <<Query("active_connections", NONE),
                                                Query("connections", NONE)>>
                         /\ Return(MissingSetting)
                         /\ UNCHANGED loc
                    ELSE /\ calls' = calls \o <<Query("active_connections", NONE),
                                                Query("connections", NONE),
                                                Query("connections", NONE)>>
                         /\ loc' = [NoLoc EXCEPT
                                      !.conn = bond_conn.conn, !.remote = r,
                                      !.report = [name   |-> opts.bond_ifname,
                                                  type   |-> "bond",
                                                  state  |-> conn_state,
                                                  slaves |-> IfnamesOf(slave_conns),
                                                  method |-> remote.ip4_method,
                                                  addrs  |-> StaticAddrs(remote.ip4_addrs)]]
                         /\ Return(Ok)

----------------------------------------------------------------------------
(* delete_access_point and access_point_status (access_point.rs) *)

\* lines 172-211: validation, the profile, the search for the stored access point,
\* and the deactivation of the active access point
DeleteApCheck ==
    /\ pc = "delete_access_point"
    /\ UNCHANGED <<waitVars, inv, opts, snap, prev, callNo>>
    /\ IF opts.wireless_ifname = NONE \/ opts.ssid = NONE
       THEN Return(MissingRequiredField) /\ UNCHANGED <<backendVars, calls, loc>>
       ELSE LET ap_conn == create_access_point_connection(opts) IN
            IF ap_conn.err # NONE
            THEN Return(ap_conn.err) /\ UNCHANGED <<backendVars, calls, loc>>
            ELSE LET r == get_connection(stored, DeviceTypeWifi, ap_conn.conn)
                     c == get_active_connection(stored, active, DeviceTypeWifi,
                                                ap_conn.conn)
                 IN IF r = NoHandle
                    THEN /\ calls' = Append(calls, Query("connections", NONE))
                         /\ Return(NotFound)
                         /\ UNCHANGED <<backendVars, loc>>
                    ELSE /\ loc' = [NoLoc EXCEPT !.conn = ap_conn.conn, !.remote = r]
                         /\ IF c # NoHandle
                            THEN \E ok \in BOOLEAN :
                                   /\ calls' = calls \o
                                        <<Query("connections", NONE),
                                          Query("active_connections", NONE),
                                          Call("deactivate", active[c].conn,
                                               opts.wireless_ifname, NONE, ok)>>
                                   /\ IF ok
                                      THEN /\ SetBackend(BackendDeactivate(Backend, c))
                                           /\ pc' = "da_delete"
                                           /\ UNCHANGED result
                                      ELSE /\ Return(BackendOperationFailed)
                                           /\ UNCHANGED backendVars
                            ELSE /\ calls' = calls \o
                                      <<Query("connections", NONE),
                                        Query("active_connections", NONE)>>
                                 /\ pc' = "da_delete"
                                 /\ UNCHANGED <<backendVars, result>>

\* lines 213-222: the stored access point is deleted
DeleteApDelete ==
    /\ pc = "da_delete"
    /\ UNCHANGED <<waitVars, inv, opts, snap, prev, callNo, loc>>
    /\ \E ok \in BOOLEAN :
         /\ calls' = Append(calls, Call("delete", loc.remote, opts.wireless_ifname,
                                        NONE, ok))
         /\ IF ok
            THEN SetBackend(BackendDelete(Backend, loc.remote)) /\ Return(Ok)
            ELSE Return(BackendOperationFailed) /\ UNCHANGED backendVars

\* lines 227-327: the state of the active access point, the stored access point and
\* its IPv4 settings are printed
ApStatus ==
    /\ pc = "access_point_status"
    /\ UNCHANGED <<backendVars, waitVars, inv, opts, snap, prev, callNo>>
    /\ IF opts.ssid = NONE
       THEN Return(MissingRequiredField) /\ UNCHANGED <<calls, loc>>
       ELSE LET ap_conn == create_access_point_connection(opts) IN
            IF ap_conn.err # NONE
            THEN Return(ap_conn.err) /\ UNCHANGED <<calls, loc>>
            ELSE LET c == get_active_connection(stored, active, DeviceTypeWifi,
                                                ap_conn.conn)
                     conn_state == IF c # NoHandle THEN active[c].state
                                   ELSE StateDeactivated
                     r == get_connection(stored, DeviceTypeWifi, ap_conn.conn)
                     remote == ConnOf(stored, r)[1]
                 IN IF r = NoHandle
                    THEN /\ calls' = calls \o <<Query("active_connections", NONE),
                                                Query("connections", NONE)>>
                         /\ Return(NotFound)
                         /\ UNCHANGED loc
                    ELSE IF remote.ip4_method = NONE
                    THEN /\ calls' = calls \o <<Query("active_connections", NONE),
                                                Query("connections", NONE)>>
                         /\ Return(MissingSetting)
                         /\ UNCHANGED loc
                    ELSE /\ calls' = calls \o <<Query("active_connections", NONE),
                                                Query("connections", NONE)>>
                         /\ loc' = [NoLoc EXCEPT
                                      !.conn = ap_conn.conn, !.remote = r,
                                      !.report = [name   |-> opts.ssid,
                                                  type   |-> "access point",
                                                  state  |-> conn_state,
                                                  slaves |-> <<>>,
                                                  method |-> remote.ip4_method,
                                                  addrs  |-> StaticAddrs(remote.ip4_addrs)]]
                         /\ Return(Ok)

----------------------------------------------------------------------------
(* One subcommand run after another *)

\* the status verb of the subcommand a delete verb belongs to
StatusVerbOf(v) == IF v = "delete_bond" THEN "bond_status" ELSE "access_point_status"

\* the status verb invoked with the arguments the finished delete verb was given
StatusAfterDelete ==
    /\ pc = "done"
    /\ callNo < MaxCalls
    /\ inv.verb \in {"delete_bond", "delete_access_point"}
    /\ prev' = [verb |-> inv.verb, args |-> inv.args, result |-> result,
                added |-> Added(calls)]
    /\ Begin([verb |-> StatusVerbOf(inv.verb), args |-> inv.args])

----------------------------------------------------------------------------

Next ==
    \/ Start
    \/ Repeat
    \/ CreateBondCheck
    \/ CreateBondScan
    \/ CreateBondDevices
    \/ CreateBondAdd
    \/ CreateBondAddSlave
    \/ CreateBondActivateSlave
    \/ CreateBondResolve
    \/ CreateApCheck
    \/ CreateApAdd
    \/ CreateApActivate
    \/ CreateStaCheck
    \/ CreateStaPreempt
    \/ CreateStaAdd
    \/ CreateStaActivate
    \/ DeleteBondCheck
    \/ DeleteBondDelete
    \/ DeleteBondSlave
    \/ BondStatus
    \/ DeleteApCheck
    \/ DeleteApDelete
    \/ ApStatus
    \/ StatusAfterDelete
    \/ StateChanged
    \/ HandleStateChanged
    \/ WaitReturn

Spec == Init /\ [][Next]_vars

\* the main context runs every spawned task, and a value sent on the channel wakes
\* the awaiting receiver; the backend is not obliged to change any state
LiveSpec == Spec /\ WF_vars(HandleStateChanged) /\ WF_vars(WaitReturn)

----------------------------------------------------------------------------
(* Option parsing on its own: TryFrom applied to the arguments of one invocation *)

\* password strings by length: 1, 3, 5, 7, 8, 13, 63, 64 (hexadecimal and not), 65
PasswordStrings ==
    {"", "a", "123", "short", "1234567", "12345678", "test_password",
     "xxxxxxxxxxxxxxxxxxxxxxxxxxxxxxxxxxxxxxxxxxxxxxxxxxxxxxxxxxxxxxx",
     "0123456789abcdef0123456789abcdef0123456789abcdef0123456789abcdef",
     "g0123456789abcdef0123456789abcdef0123456789abcdef0123456789abcde",
     "yyyyyyyyyyyyyyyyyyyyyyyyyyyyyyyyyyyyyyyyyyyyyyyyyyyyyyyyyyyyyyyyy"}

ParseWifiArgs ==
    { [config |-> FALSE, ssid |-> sd, wireless_ifname |-> w, ip4_addr |-> NONE,
       password |-> pw, doc |-> NoWifiDoc] :
         sd \in {NONE, Home}, w \in {NONE, Wlan0}, pw \in {NONE, "", "short", "12345678"} }
    \cup
    { [config |-> TRUE, ssid |-> NONE, wireless_ifname |-> NONE, ip4_addr |-> NONE,
       password |-> NONE,
       doc |-> [wireless_interface |-> w, ssid |-> sd, password |-> pw, ip4_addr |-> ip]] :
         sd \in {NONE, "", Home}, w \in {NONE, "", Wlan0},
         pw \in {NONE} \cup PasswordStrings, ip \in {NONE, "", "192.168.0.10/24"} }
    \cup
    \* --config together with positional arguments
    { [config |-> TRUE, ssid |-> sd, wireless_ifname |-> w, ip4_addr |-> ip,
       password |-> pw,
       doc |-> [wireless_interface |-> dw, ssid |-> dsd, password |-> NONE,
                ip4_addr |-> NONE]] :
         sd \in {NONE, OtherSsid}, w \in {NONE, Wlan0}, ip \in {NONE, "172.16.0.1/24"},
         pw \in {NONE, "12345678"}, dw \in {NONE, Wlan0}, dsd \in {NONE, Home} }

ParseBondArgs ==
    BondCliArgs \cup BondConfigArgs
    \cup
    { [config |-> TRUE, ifname |-> NONE, bond_mode |-> NONE, ip4_addr |-> NONE,
       slave_ifnames |-> <<>>,
       doc |-> [bond_interface |-> i, bond_mode |-> m, slave_interfaces |-> sl,
                ip4_addr |-> ip]] :
         i \in {NONE, "", BondIf}, m \in {NONE, "ActiveBackup", "XOR"},
         sl \in SlaveLists, ip \in {NONE, "", "192.168.0.10/24"} }
    \cup
    \* --config together with positional arguments
    { [config |-> TRUE, ifname |-> i, bond_mode |-> m, ip4_addr |-> ip,
       slave_ifnames |-> sl,
       doc |-> [bond_interface |-> di, bond_mode |-> NONE, slave_interfaces |-> dsl,
                ip4_addr |-> NONE]] :
         i \in {NONE, OtherBondIf}, m \in {NONE, "RoundRobin"},
         ip \in {NONE, "172.16.0.1/24"}, sl \in {<<>>, <<Eth1>>},
         di \in {NONE, BondIf}, dsl \in {<<>>, <<Eth0>>} }

\* try_from has run: the options and the parse result are kept, no verb runs
Parsed(i, r) ==
    /\ pc = "idle"
    /\ inv' = i
    /\ opts' = r.opts
    /\ result' = IF r.err # NONE THEN r.err ELSE Ok
    /\ pc' = "parsed"
    /\ UNCHANGED <<backendVars, waitVars, calls, loc, snap, prev, callNo>>

ParseWifi ==
    \E v \in WifiVerbs, a \in ParseWifiArgs :
        Parsed([verb |-> v, args |-> a], WifiOptsTryFrom(a))

ParseBond ==
    \E v \in BondVerbs, a \in ParseBondArgs :
        Parsed([verb |-> v, args |-> a], BondOptsTryFrom(a))

ParseInit == Init /\ stored = <<>> /\ active = <<>> /\ devices = AllDevices

ParseNext == ParseWifi \/ ParseBond

ParseSpec == ParseInit /\ [][ParseNext]_vars

----------------------------------------------------------------------------
(* The matching predicates on their own: one comparison of a desired profile with
   one stored profile, as in one iteration of the loop of get_connection *)

MatchIds    == {NONE, "id"}
MatchIfs    == {NONE, Eth0, Wlan0}
MatchModes  == {NONE, SETTING_WIRELESS_MODE_AP, SETTING_WIRELESS_MODE_INFRA}
MatchSsids  == {NONE, Home, OtherSsid}
MatchMasters == {NONE, "", BondIf, OtherBondIf}
MatchSlaveTypes == {NONE, SETTING_BOND_SETTING_NAME}
MatchPsks   == {NONE, "12345678", "test_password"}

\* profiles of every type, and of none, with each compared field present or absent
MatchProfiles ==
    { [EmptyConnection EXCEPT !.type = SETTING_BOND_SETTING_NAME, !.id = i,
                              !.ifname = f] : i \in MatchIds, f \in MatchIfs }
    \cup
    { [EmptyConnection EXCEPT !.type = SETTING_WIRED_SETTING_NAME, !.id = i,
                              !.ifname = f, !.master = m, !.slave_type = t] :
        i \in MatchIds, f \in MatchIfs, m \in MatchMasters, t \in MatchSlaveTypes }
    \cup
    { [EmptyConnection EXCEPT !.type = SETTING_WIRELESS_SETTING_NAME, !.id = i,
                              !.ifname = f, !.wireless = TRUE, !.mode = md,
                              !.ssid = sd, !.psk = k] :
        i \in MatchIds, f \in MatchIfs, md \in MatchModes, sd \in MatchSsids,
        k \in MatchPsks }
    \cup
    { [EmptyConnection EXCEPT !.type = SETTING_WIRELESS_SETTING_NAME, !.id = i,
                              !.ifname = f, !.psk = k] :
        i \in MatchIds, f \in MatchIfs, k \in MatchPsks }
    \cup
    { [EmptyConnection EXCEPT !.id = "id", !.ifname = f] : f \in MatchIfs }

\* the backend lists one profile
MatchInit ==
    /\ \E cmp_conn \in MatchProfiles : stored = <<[uid |-> 1, conn |-> cmp_conn]>>
    /\ active = <<>>
    /\ devices = AllDevices
    /\ nextUid = 2
    /\ inv = NoInv
    /\ opts = NoBondOpts
    /\ pc = "idle"
    /\ result = NONE
    /\ calls = <<>>
    /\ loc = NoLoc
    /\ sender = FALSE
    /\ tasks = <<>>
    /\ chan = NONE
    /\ notifs = 0
    /\ observed = <<>>
    /\ snap = [stored |-> stored, active |-> active]
    /\ prev = NoPrev
    /\ callNo = 0

\* the predicate of device_type applied to a desired profile and the listed one; the
\* handle of the listed profile is kept when the predicate holds
MatchOne(device_type) ==
    /\ \E conn \in MatchProfiles :
         loc' = [NoLoc EXCEPT
                   !.conn = conn,
                   !.remote = IF found_matching(device_type, conn, stored[1].conn)
                              THEN stored[1].uid ELSE NoHandle]
    /\ inv' = [verb |-> "found_matching", args |-> [device_type |-> device_type]]
    /\ pc' = "matched"
    /\ UNCHANGED <<backendVars, waitVars, opts, result, calls, snap, prev, callNo>>

\* the arms of `match device_type`, each on a backend not compared yet
MatchBond ==
    /\ pc = "idle"
    /\ MatchOne(DeviceTypeBond)
MatchWired ==
    /\ pc = "idle"
    /\ MatchOne(DeviceTypeEthernet)
MatchWifi ==
    /\ pc = "idle"
    /\ MatchOne(DeviceTypeWifi)

MatchNext == MatchBond \/ MatchWired \/ MatchWifi

MatchSpec == MatchInit /\ [][MatchNext]_vars

----------------------------------------------------------------------------
(* The search functions on their own: one call of get_connection,
   get_active_connection or get_slave_connections on a listing of the backend *)

\* the profiles the backend may list: bond connections with and without interface
\* name, standalone and enslaved wired connections, an access point
ScanProfiles ==
    { StoredBond(BondIf),
      [StoredBond(BondIf) EXCEPT !.ifname = NONE],
      create_wired_connection(Eth0, NONE),
      create_wired_connection(Eth0, BondIf),
      create_wired_connection(Eth1, BondIf),
      create_wired_connection(Eth0, OtherBondIf),
      StoredWifi(Wlan0, SETTING_WIRELESS_MODE_AP, Home) }

\* the profiles searched for: those of the verbs, and a bond profile that omits the
\* interface name
ScanTemplates ==
    { StoredBond(BondIf),
      [StoredBond(BondIf) EXCEPT !.ifname = NONE],
      create_wired_connection(Eth0, NONE),
      create_wired_connection(Eth0, ""),
      create_wired_connection(Eth0, BondIf),
      StoredWifi(Wlan0, SETTING_WIRELESS_MODE_AP, Home) }

\* the sequences without repetition over S of at most n elements
SeqsUpTo(S, n) ==
    UNION { {q \in [1..m -> S] : \A x, y \in 1..m : x # y => q[x] # q[y]} :
              m \in 0..n }

\* a listing of at most MaxInitConns stored connections (uid = position), identical
\* profiles allowed, and of as many active connections, each of a stored connection
\* or of none the backend can resolve (handle NoHandle)
ScanInit ==
    /\ \E n \in 0..MaxInitConns :
         \E q \in [1..n -> ScanProfiles] :
            stored = [k \in 1..n |-> [uid |-> k, conn |-> q[k]]]
    /\ \E a \in SeqsUpTo((1..Len(stored)) \cup {NoHandle}, MaxInitConns) :
            active = [k \in 1..Len(a) |-> [conn |-> a[k], state |-> StateActivated]]
    /\ devices = AllDevices
    /\ nextUid = Len(stored) + 1
    /\ inv = NoInv
    /\ opts = NoBondOpts
    /\ pc = "idle"
    /\ result = NONE
    /\ calls = <<>>
    /\ loc = NoLoc
    /\ sender = FALSE
    /\ tasks = <<>>
    /\ chan = NONE
    /\ notifs = 0
    /\ observed = <<>>
    /\ snap = [stored |-> stored, active |-> active]
    /\ prev = NoPrev
    /\ callNo = 0

ScanKinds == {DeviceTypeBond, DeviceTypeEthernet, DeviceTypeWifi}

\* the handles of a sequence of stored connections
RECURSIVE UidsOf(_)
UidsOf(conns) ==
    IF conns = <<>> THEN <<>> ELSE <<Head(conns).uid>> \o UidsOf(Tail(conns))

\* a search has returned: what was called, with which arguments
Scanned(fn, args) ==
    /\ pc = "idle"
    /\ inv' = [verb |-> fn, args |-> args]
    /\ pc' = "scanned"
    /\ UNCHANGED <<backendVars, waitVars, opts, result, calls, snap, prev, callNo>>

\* get_connection: the handle returned is kept in loc.remote
ScanStored ==
    \E device_type \in ScanKinds, conn \in ScanTemplates :
        /\ Scanned("get_connection", [device_type |-> device_type])
        /\ loc' = [NoLoc EXCEPT !.conn = conn,
                                !.remote = get_connection(stored, device_type, conn)]

\* get_active_connection: the index of the active connection returned is kept
ScanActive ==
    \E device_type \in ScanKinds, conn \in ScanTemplates :
        /\ Scanned("get_active_connection", [device_type |-> device_type])
        /\ loc' = [NoLoc EXCEPT
                     !.conn = conn,
                     !.remote = get_active_connection(stored, active, device_type, conn)]

\* get_slave_connections: the handles of the connections returned are kept
ScanSlaves ==
    \E master_ifname \in {BondIf, OtherBondIf},
       slave_device_type \in {DeviceTypeEthernet, DeviceTypeBond} :
        /\ Scanned("get_slave_connections",
                   [master_ifname |-> master_ifname,
                    slave_device_type |-> slave_device_type])
        /\ loc' = [NoLoc EXCEPT
                     !.slaves = UidsOf(get_slave_connections(stored, master_ifname,
                                                             slave_device_type))]

ScanNext == ScanStored \/ ScanActive \/ ScanSlaves

ScanSpec == ScanInit /\ [][ScanNext]_vars

----------------------------------------------------------------------------
(* The profile builders on their own: one call of create_bond_connection,
   create_access_point_connection or create_sta_connection on given options *)

BuildBondOpts ==
    { [bond_ifname |-> i, bond_mode |-> m, slave_ifnames |-> sl, ip4_addr |-> ip] :
        i \in {NONE, BondIf}, m \in {"ActiveBackup", "RoundRobin"},
        sl \in {{}, {Eth0}}, ip \in {NONE} \cup Ip4Strings }

BuildWifiOpts ==
    { [wireless_ifname |-> w, ssid |-> sd, password |-> pw, ip4_addr |-> ip] :
        w \in {NONE, Wlan0}, sd \in {NONE, Home}, pw \in {NONE, "12345678"},
        ip \in {NONE} \cup Ip4Strings }

\* a builder has returned: the options, the profile and the outcome are kept
Built(fn, o, r) ==
    /\ inv' = [verb |-> fn, args |-> o]
    /\ opts' = o
    /\ loc' = [NoLoc EXCEPT !.conn = r.conn]
    /\ result' = IF r.err # NONE THEN r.err ELSE Ok
    /\ pc' = "built"
    /\ UNCHANGED <<backendVars, waitVars, calls, snap, prev, callNo>>

BuildBond ==
    \E o \in BuildBondOpts :
        /\ pc = "idle"
        /\ Built("create_bond_connection", o, create_bond_connection(o))

BuildAp ==
    \E o \in BuildWifiOpts :
        /\ pc = "idle"
        /\ Built("create_access_point_connection", o, create_access_point_connection(o))

BuildSta ==
    \E o \in BuildWifiOpts :
        /\ pc = "idle"
        /\ Built("create_sta_connection", o, create_sta_connection(o))

BuildNext == BuildBond \/ BuildAp \/ BuildSta

BuildSpec == ParseInit /\ [][BuildNext]_vars

----------------------------------------------------------------------------
(* Properties of the create verbs *)

\* the bond profile create_bond looks up and adds: the options must pass the checks
\* of lines 86-100 and create_bond_connection must succeed
BondTarget(o) ==
    IF o.bond_ifname = NONE \/ o.slave_ifnames = {} \/ "" \in o.slave_ifnames
    THEN ErrConn(InvalidValue)
    ELSE create_bond_connection(o)

\* some connection of the stored sequence matches the profile
Matches(conns, device_type, conn) ==
    \E k \in 1..Len(conns) : found_matching(device_type, conn, conns[k].conn)

\* the running invocation is of verb v and has taken its first step
Entered(v) == inv.verb = v /\ pc \notin {"idle", "parsed", v}

\* the password and the slave interfaces as the user gave them
GivenPassword ==
    IF inv.verb \notin WifiVerbs THEN NONE
    ELSE IF inv.args.config THEN inv.args.doc.password ELSE inv.args.password
GivenSlaves ==
    IF inv.verb \notin BondVerbs THEN <<>>
    ELSE IF inv.args.config THEN inv.args.doc.slave_interfaces ELSE inv.args.slave_ifnames

\* C1: create_bond and create_access_point: when a connection stored at the start of
\* the invocation matches the target profile built from the options, the verb has
\* returned the already-exists conflict error in its first step and has issued no
\* backend mutation (no deactivate, add, activate or delete).
C1_ExistingTargetRefused ==
    /\ (Entered("create_bond") /\ BondTarget(opts).err = NONE
        /\ Matches(snap.stored, DeviceTypeBond, BondTarget(opts).conn))
       => (pc = "done" /\ result = AlreadyExists /\ MutationsIn(calls) = {})
    /\ (Entered("create_access_point")
        /\ create_access_point_connection(opts).err = NONE
        /\ Matches(snap.stored, DeviceTypeWifi, create_access_point_connection(opts).conn))
       => (pc = "done" /\ result = AlreadyExists /\ MutationsIn(calls) = {})

\* a first create_bond call that found the bond stored, with a connection active,
\* and was refused without a mutation
C1_Witness ==
    /\ inv.verb = "create_bond" /\ callNo = 1 /\ pc = "done"
    /\ result = AlreadyExists
    /\ snap.active # <<>>
    /\ MutationsIn(calls) = {}

\* the target profile of the running create verb, and the matcher it goes with
TargetOf(v, o) ==
    CASE v = "create_bond"         -> BondTarget(o)
      [] v = "create_access_point" -> create_access_point_connection(o)
      [] v = "create_station"      -> create_sta_connection(o)
      [] OTHER                     -> ErrConn(InvalidValue)
DeviceTypeOf(v) == IF v \in BondVerbs THEN DeviceTypeBond ELSE DeviceTypeWifi

\* C2 as stated: a create verb invoked a second time with the same options, after the
\* first call succeeded, returns a conflict error and adds nothing, and no two stored
\* connections match the target profile.
C2_SecondCreateConflicts ==
    (callNo = 2 /\ prev.result = Ok /\ pc = "done")
       => /\ result \in ConflictErrors
          /\ Added(calls) = {}
          /\ Cardinality({k \in 1..Len(stored) :
                  found_matching(DeviceTypeOf(inv.verb), TargetOf(inv.verb, opts).conn,
                                 stored[k].conn)}) <= 1

\* C3: create_bond given no slave interface, or a slave interface named "", returns
\* a validation error from its first step and issues no backend call of any kind.
C3_InvalidSlavesRejected ==
    (inv.verb = "create_bond" /\ pc # "idle"
     /\ (GivenSlaves = <<>> \/ \E k \in 1..Len(GivenSlaves) : GivenSlaves[k] = ""))
       => /\ calls = <<>>
          /\ pc \in {"create_bond", "done"}
          /\ pc = "done" => result \in ValidationErrors

\* create_bond with a bond interface and the slaves eth0 and "" on a backend that
\* stores connections: refused as an invalid value, no call issued
C3_Witness ==
    /\ inv.verb = "create_bond" /\ pc = "done"
    /\ opts.bond_ifname = BondIf
    /\ opts.slave_ifnames = {Eth0, ""}
    /\ result = InvalidValue
    /\ stored # <<>>
    /\ calls = <<>>

\* C4 as stated: access-point or station create given a non-empty password of fewer
\* than 8 characters, on the command line or in the config file, issues no backend
\* call and returns a validation error.
C4_ShortPasswordRejected ==
    (inv.verb \in {"create_access_point", "create_station"} /\ pc # "idle"
     /\ GivenPassword # NONE
     /\ Len(GivenPassword) > 0 /\ Len(GivenPassword) < MinPasswordLen)
       => /\ calls = <<>>
          /\ pc = "done" => result \in ValidationErrors

\* C5 as stated: options parsed from a document whose password is "" parse without
\* error and carry no password, exactly as when the password key is omitted.
C5_EmptyPasswordIsNone ==
    (pc = "parsed" /\ inv.verb \in WifiVerbs /\ inv.args.config
     /\ inv.args.doc.password = "")
       => /\ result = Ok
          /\ opts.password = NONE
          /\ opts = parse_wifi_opts([inv.args.doc EXCEPT !.password = NONE]).opts

\* C6: a config-file password of 1 to 7 characters is rejected; one of 8 characters
\* or more is accepted, and kept unchanged as the options' password and the PSK of the
\* profile built from them, iff utils_wpa_psk_valid accepts it, and rejected otherwise.
C6_PasswordValidation ==
    (pc = "parsed" /\ inv.verb \in WifiVerbs /\ inv.args.config
     /\ inv.args.doc.password \notin {NONE, ""})
       => LET p  == inv.args.doc.password
              ap == create_access_point_connection(opts)
              st == create_sta_connection(opts)
          IN /\ Len(p) < MinPasswordLen => result = InvalidValue
             /\ (Len(p) >= MinPasswordLen /\ ~utils_wpa_psk_valid(p))
                   => result = InvalidValue
             /\ (Len(p) >= MinPasswordLen /\ utils_wpa_psk_valid(p))
                   => /\ result = Ok
                      /\ opts.password = p
                      /\ ap.err = NONE => ap.conn.psk = p
                      /\ st.err = NONE => st.conn.psk = p

\* a 64-character password that is not hexadecimal: long enough, refused by the
\* PSK validity check
C6_Witness ==
    /\ pc = "parsed" /\ inv.verb \in WifiVerbs /\ inv.args.config
    /\ inv.args.doc.password # NONE
    /\ Len(inv.args.doc.password) = 64
    /\ result = InvalidValue

\* handles of the access-point connections active on interface ifname at the start
\* of the invocation
ActiveApsAtStart(ifname) ==
    {snap.active[k].conn : k \in {j \in 1..Len(snap.active) :
        LET c == ConnOf(snap.stored, snap.active[j].conn)
        IN c # <<>> /\ c[1].type = SETTING_WIRELESS_SETTING_NAME
           /\ c[1].mode = SETTING_WIRELESS_MODE_AP /\ c[1].ifname = ifname}}

\* C7 as stated: create_station: every access-point connection active on the requested
\* interface at the start, whatever its SSID, has been deactivated by the verb before
\* the verb issues the activation of the station connection.
C7_ActiveApDeactivatedFirst ==
    inv.verb = "create_station"
       => \A u \in ActiveApsAtStart(opts.wireless_ifname) :
            \A k \in 1..Len(calls) :
               calls[k].op = "activate"
                  => \E j \in 1..(k - 1) :
                        calls[j].op = "deactivate" /\ calls[j].uid = u /\ calls[j].ok

\* interface s carries an active wired connection that has a master
HasActiveSlave(b, s) ==
    \E k \in 1..Len(b.active) :
        LET c == ConnOf(b.stored, b.active[k].conn)
        IN c # <<>> /\ c[1].type = SETTING_WIRED_SETTING_NAME
           /\ c[1].ifname = s /\ c[1].master # NONE

\* C8 as stated: create_bond with valid options, no matching bond stored, no slave
\* interface enslaved and no backend call failing, but a slave interface without a
\* device, returns the not-found error and has issued no backend mutation.
C8_MissingDeviceNoMutation ==
    (Entered("create_bond") /\ pc = "done"
     /\ BondTarget(opts).err = NONE
     /\ ~Matches(snap.stored, DeviceTypeBond, BondTarget(opts).conn)
     /\ (\A k \in 1..Len(calls) : calls[k].ok)
     /\ (\A s \in opts.slave_ifnames : ~HasActiveSlave(snap, s))
     /\ (\E t \in opts.slave_ifnames : t \notin devices))
       => /\ result = NotFound
          /\ MutationsIn(calls) = {}

\* calls of the log with the given operation
CallsOf(log, op) == {k \in 1..Len(log) : log[k].op = op}

AddsOf(log, ifname, master) ==
    {k \in CallsOf(log, "add") :
        log[k].ok /\ log[k].ifname = ifname /\ log[k].master = master}

\* C10: create_bond on a backend that stores nothing, with valid options (a bond
\* interface, mode active-backup, slave interfaces that all have a device): no
\* connection is added twice; once every backend call has succeeded, exactly one
\* bond connection and one wired slave connection per distinct slave interface are
\* added and each slave connection is activated on its interface; and the verb
\* returns Ok only after reading state Activated from the bond's active connection.
C10_BondCreatedOnEmptyBackend ==
    (Entered("create_bond") /\ snap.stored = <<>>
     /\ BondTarget(opts).err = NONE
     /\ opts.bond_mode = "ActiveBackup"
     /\ opts.slave_ifnames \subseteq devices)
       => /\ Cardinality(AddsOf(calls, opts.bond_ifname, NONE)) <= 1
          /\ \A s \in opts.slave_ifnames :
                Cardinality(AddsOf(calls, s, opts.bond_ifname)) <= 1
          /\ Len(stored) = Cardinality(CallsOf(calls, "add") \cap
                                       {k \in 1..Len(calls) : calls[k].ok})
          /\ (pc \in {"cb_resolve", "wait"}
              \/ (pc = "done" /\ result # BackendOperationFailed))
                => /\ Cardinality(AddsOf(calls, opts.bond_ifname, NONE)) = 1
                   /\ Len(stored) = 1 + Cardinality(opts.slave_ifnames)
                   /\ \A s \in opts.slave_ifnames :
                        /\ Cardinality(AddsOf(calls, s, opts.bond_ifname)) = 1
                        /\ \E k \in AddsOf(calls, s, opts.bond_ifname) :
                             \E a \in CallsOf(calls, "activate") :
                                /\ a > k
                                /\ calls[a].uid = calls[k].uid
                                /\ calls[a].ifname = s
                                /\ calls[a].ok
          /\ (pc = "done" /\ result = Ok)
                => \E k \in 1..Len(observed) : observed[k] = StateActivated

\* bond0 over eth0 and eth1 created on an empty backend, reported Activated by a
\* notification after the wait began
C10_Witness ==
    /\ Entered("create_bond") /\ snap.stored = <<>>
    /\ pc = "done" /\ result = Ok
    /\ opts.slave_ifnames = {Eth0, Eth1}
    /\ Len(stored) = 3
    /\ Len(observed) >= 2
    /\ observed[Len(observed)] = StateActivated

----------------------------------------------------------------------------
(* Properties of the delete and status verbs *)

\* the profile a delete or status verb searches the stored connections for: the
\* options must pass the verb's checks and the builder must succeed
SearchTemplate(v, o) ==
    CASE v \in {"delete_bond", "bond_status"} ->
            IF o.bond_ifname = NONE \/ "" \in o.slave_ifnames
            THEN ErrConn(InvalidValue)
            ELSE create_bond_connection(o)
      [] v = "delete_access_point" ->
            IF o.wireless_ifname = NONE \/ o.ssid = NONE
            THEN ErrConn(MissingRequiredField)
            ELSE create_access_point_connection(o)
      [] v = "access_point_status" ->
            IF o.ssid = NONE
            THEN ErrConn(MissingRequiredField)
            ELSE create_access_point_connection(o)
      [] OTHER -> ErrConn(InvalidValue)

DeleteVerbs == {"delete_bond", "delete_access_point"}

\* C11: delete_bond and delete_access_point: when no connection stored at the start
\* of the invocation matches the search template built from the options, the verb
\* has returned the not-found error in its first step and has issued no backend
\* mutation (no deactivate, no delete), whatever else is stored or active.
C11_DeleteMissingNotFound ==
    \A v \in DeleteVerbs :
        (/\ Entered(v)
         /\ SearchTemplate(v, opts).err = NONE
         /\ ~Matches(snap.stored, DeviceTypeOf(v), SearchTemplate(v, opts).conn))
           => /\ pc = "done"
              /\ result = NotFound
              /\ MutationsIn(calls) = {}
              /\ stored = snap.stored
              /\ active = snap.active

\* delete_access_point of "home" on wlan0 while only another access point is stored,
\* and active
C11_Witness ==
    /\ Entered("delete_access_point")
    /\ SearchTemplate(inv.verb, opts).err = NONE
    /\ ~Matches(snap.stored, DeviceTypeWifi, SearchTemplate(inv.verb, opts).conn)
    /\ snap.stored # <<>>
    /\ snap.active # <<>>
    /\ pc = "done" /\ result = NotFound

\* the stored connections of `conns` that are wired and not enslaved to master_ifname
ForeignWired(conns, master_ifname) ==
    {k \in 1..Len(conns) :
        /\ conns[k].conn.type = SETTING_WIRED_SETTING_NAME
        /\ (conns[k].conn.master = NONE \/ conns[k].conn.master # master_ifname)}

\* C12: delete_bond never deletes a stored wired connection whose master is not the
\* bond interface being deleted, whether or not its interface is one of the slave
\* interfaces the user named: no delete call names it and it stays stored.  Once the
\* stored bond connection was found, delete_bond fails only if a backend call
\* failed: a named slave interface that is not a stored slave of the bond is skipped.
C12_ForeignWiredKept ==
    (Entered("delete_bond") /\ opts.bond_ifname # NONE)
      => /\ \A k \in ForeignWired(snap.stored, opts.bond_ifname) :
              /\ \E j \in 1..Len(stored) : stored[j] = snap.stored[k]
              /\ \A c \in CallsOf(calls, "delete") : calls[c].uid # snap.stored[k].uid
         /\ (/\ pc = "done"
             /\ SearchTemplate("delete_bond", opts).err = NONE
             /\ Matches(snap.stored, DeviceTypeBond,
                        SearchTemplate("delete_bond", opts).conn)
             /\ \A c \in 1..Len(calls) : calls[c].ok)
               => result = Ok

\* delete_bond of bond0 naming eth0, while the only stored wired connection on eth0
\* is enslaved to bond1: the bond is deleted, the wired connection is kept
C12_Witness ==
    /\ Entered("delete_bond") /\ pc = "done" /\ result = Ok
    /\ Eth0 \in opts.slave_ifnames
    /\ \E k \in ForeignWired(snap.stored, opts.bond_ifname) :
          /\ snap.stored[k].conn.ifname = Eth0
          /\ snap.stored[k].conn.master = OtherBondIf
          /\ \E j \in 1..Len(stored) : stored[j] = snap.stored[k]
    /\ \E c \in CallsOf(calls, "delete") : calls[c].ok
    /\ ~Matches(stored, DeviceTypeBond, SearchTemplate("delete_bond", opts).conn)

\* C13 as stated: a status verb run right after a delete verb that returned success,
\* with the same options, returns the not-found error.
C13_StatusAfterDeleteNotFound ==
    (/\ prev.verb \in DeleteVerbs
     /\ prev.result = Ok
     /\ inv.verb = StatusVerbOf(prev.verb)
     /\ inv.args = prev.args
     /\ pc = "done")
       => result = NotFound

\* the options of the running invocation were built without error, so its verb ran
OptsParsed ==
    (IF inv.verb \in BondVerbs THEN BondOptsTryFrom(inv.args)
     ELSE WifiOptsTryFrom(inv.args)).err = NONE

\* a bond connection of interface ifname is stored
BondStored(conns, ifname) ==
    \E k \in 1..Len(conns) :
        /\ conns[k].conn.type = SETTING_BOND_SETTING_NAME
        /\ conns[k].conn.ifname = ifname

\* C14 as stated: bond_status given a bond interface returns success whenever a bond
\* connection of that interface is stored, active or not.
C14_StatusSucceedsWhenStored ==
    (/\ Entered("bond_status")
     /\ OptsParsed
     /\ opts.bond_ifname # NONE
     /\ BondStored(stored, opts.bond_ifname))
       => (pc = "done" /\ result = Ok)

\* C15 as stated: bond_status invoked without a bond interface does not fail with the
\* missing-field error, and prints the report of a stored bond connection when one
\* exists.
C15_StatusWithoutInterface ==
    (Entered("bond_status") /\ OptsParsed /\ opts.bond_ifname = NONE /\ pc = "done")
       => /\ result # MissingRequiredField
          /\ (\E k \in 1..Len(stored) : stored[k].conn.type = SETTING_BOND_SETTING_NAME)
                => (result = Ok /\ loc.report.type = "bond")

----------------------------------------------------------------------------
(* Properties of the activation wait *)

CreateVerbs == {"create_bond", "create_access_point", "create_station"}

\* C16 as stated: in every create verb, a connection that is Activated when the
\* activation wait begins makes the wait succeed at once: no create verb is left
\* waiting for a state-change notification, none delivered yet, on an active
\* connection that is already Activated.
C16_ActivatedShortCircuits ==
    (inv.verb \in CreateVerbs /\ pc = "wait" /\ notifs = 0)
       => StateOf(active, loc.remote) # StateActivated

\* the states of the notifications whose tasks have run, in the order they ran
\* (wait_for_connection_to_activate reads the state once before it subscribes)
Handled == IF inv.verb = "create_access_point" THEN observed ELSE Tail(observed)

\* the index of the first state of q that is not Activating, 0 if there is none
FirstDecisive(q) ==
    IF \E k \in 1..Len(q) : q[k] # StateActivating
    THEN CHOOSE k \in 1..Len(q) :
            /\ q[k] # StateActivating
            /\ \A j \in 1..(k - 1) : q[j] = StateActivating
    ELSE 0

\* the wait of the running create verb has begun
WaitBegun == inv.verb \in CreateVerbs /\ (pc = "wait" \/ (pc = "done" /\ chan # NONE))

\* C17: the activation wait is one-shot.  While only Activating notifications have
\* been handled nothing is sent and the sender is still there; otherwise the value
\* sent is the one of the first handled notification that is not Activating (success
\* iff it is Activated, failure for Deactivating, Deactivated and Unknown), whatever
\* was handled after it, the sender is gone (no second send), and a wait that
\* returned has returned that value.
C17_WaitOneShot ==
    WaitBegun =>
        LET d == FirstDecisive(Handled) IN
        /\ d = 0 => (chan = NONE /\ sender /\ pc = "wait")
        /\ d # 0 => /\ chan = (IF Handled[d] = StateActivated THEN Ok
                               ELSE ActivationFailed)
                    /\ ~sender
        /\ pc = "done" => result = chan

\* a wait resolved by Activated, with a Deactivating notification handled after the
\* resolution, has returned success
C17_Witness ==
    /\ WaitBegun /\ pc = "done" /\ result = Ok
    /\ FirstDecisive(Handled) # 0
    /\ FirstDecisive(Handled) < Len(Handled)
    /\ Handled[FirstDecisive(Handled)] = StateActivated
    /\ Handled[Len(Handled)] = StateDeactivating

\* the running create verb is in its activation wait and every notification handled
\* so far (if any) reported Activating
StuckActivating ==
    /\ inv.verb \in CreateVerbs
    /\ pc = "wait"
    /\ FirstDecisive(Handled) = 0

\* C18: the activation wait has no timeout.  While the notifications handled so far
\* all report Activating (or none was handled), every step is the delivery of a
\* notification or the run of a handler task: the verb stays in the wait and has no
\* result, success or error.
C18_NoTimeout ==
    [][StuckActivating =>
          /\ pc' = "wait"
          /\ result' = NONE
          /\ (notifs' = notifs + 1 \/ Len(tasks') < Len(tasks))]_vars

\* a create verb in the wait on a connection that is Activating, the Activating
\* notification handled, no task left to run, and no result
C18_Witness ==
    /\ StuckActivating
    /\ Handled # <<>>
    /\ tasks = <<>>
    /\ StateOf(active, loc.remote) = StateActivating
    /\ chan = NONE /\ result = NONE

----------------------------------------------------------------------------
(* Properties of the matching predicates *)

\* a comparison has been made: its device type, its two profiles and its outcome
Compared     == pc = "matched"
MatchKind    == inv.args.device_type
Desired      == loc.conn
Candidate    == stored[1].conn
MatchHolds   == loc.remote # NoHandle

\* the setting name of the connection type a predicate is for
TypeOfKind(device_type) ==
    CASE device_type = DeviceTypeBond     -> SETTING_BOND_SETTING_NAME
      [] device_type = DeviceTypeEthernet -> SETTING_WIRED_SETTING_NAME
      [] device_type = DeviceTypeWifi     -> SETTING_WIRELESS_SETTING_NAME

\* C19: the optional-field rule of the matchers.  Interface name (all three
\* predicates), wireless mode and SSID (wifi predicate): when the desired profile
\* lacks the field, the outcome is the same for every value of the candidate's field,
\* absent included; when the desired profile has it, the predicate holds only if the
\* candidate has it too, with the same value.
C19_OptionalFieldRule ==
    Compared =>
      /\ Desired.ifname = NONE =>
            \A v \in MatchIfs :
                found_matching(MatchKind, Desired, [Candidate EXCEPT !.ifname = v])
                  = MatchHolds
      /\ (Desired.ifname # NONE /\ MatchHolds) =>
            (Candidate.ifname # NONE /\ Candidate.ifname = Desired.ifname)
      /\ MatchKind = DeviceTypeWifi =>
            /\ Desired.mode = NONE =>
                  \A v \in MatchModes :
                      found_matching(MatchKind, Desired, [Candidate EXCEPT !.mode = v])
                        = MatchHolds
            /\ (Desired.mode # NONE /\ MatchHolds) =>
                  (Candidate.mode # NONE /\ Candidate.mode = Desired.mode)
            /\ Desired.ssid = NONE =>
                  \A v \in MatchSsids :
                      found_matching(MatchKind, Desired, [Candidate EXCEPT !.ssid = v])
                        = MatchHolds
            /\ (Desired.ssid # NONE /\ MatchHolds) =>
                  (Candidate.ssid # NONE /\ Candidate.ssid = Desired.ssid)

\* a wifi profile with no interface name, mode or SSID matches a stored wifi profile
\* that has all three
C19_Witness ==
    /\ Compared /\ MatchKind = DeviceTypeWifi /\ MatchHolds
    /\ Desired.ifname = NONE /\ Desired.mode = NONE /\ Desired.ssid = NONE
    /\ Candidate.ifname # NONE /\ Candidate.mode # NONE /\ Candidate.ssid # NONE

\* C20: each predicate is false whenever the desired profile or the candidate is not
\* of the predicate's connection type, and the wifi predicate also whenever either
\* lacks wireless settings, whatever the other fields are.
C20_WrongTypeNeverMatches ==
    Compared =>
      /\ (Desired.type # TypeOfKind(MatchKind) \/ Candidate.type # TypeOfKind(MatchKind))
            => ~MatchHolds
      /\ (MatchKind = DeviceTypeWifi /\ (~Desired.wireless \/ ~Candidate.wireless))
            => ~MatchHolds

\* the bond predicate refuses a stored wired profile whose identifier and interface
\* name are those of the desired bond profile
C20_Witness ==
    /\ Compared /\ MatchKind = DeviceTypeBond /\ ~MatchHolds
    /\ Desired.type = SETTING_BOND_SETTING_NAME
    /\ Candidate.type = SETTING_WIRED_SETTING_NAME
    /\ Desired.id # NONE /\ Candidate.id # NONE
    /\ Desired.ifname # NONE /\ Candidate.ifname = Desired.ifname

\* the master of a search profile that stands for "some master" (the empty string)
MasterSentinel == ""

\* the wired predicate was applied to two wired profiles that have identifiers and
\* whose interface names match
WiredComparable ==
    /\ Compared /\ MatchKind = DeviceTypeEthernet
    /\ Desired.type = SETTING_WIRED_SETTING_NAME
    /\ Candidate.type = SETTING_WIRED_SETTING_NAME
    /\ Desired.id # NONE /\ Candidate.id # NONE
    /\ (Desired.ifname = NONE
        \/ (Candidate.ifname # NONE /\ Candidate.ifname = Desired.ifname))

\* both absent, or both present and equal
Agree(a, b) == (a = NONE /\ b = NONE) \/ (a # NONE /\ b # NONE /\ a = b)

\* C21: wired match, master linkage.  A master present on exactly one side is a
\* non-match; and when the desired master is not the sentinel, two wired profiles
\* with matching interface names match iff their masters agree (both absent, or both
\* present and equal) and their slave types agree under the same rule.
C21_MasterLinkage ==
    /\ (Compared /\ MatchKind = DeviceTypeEthernet
        /\ (Desired.master = NONE) # (Candidate.master = NONE))
          => ~MatchHolds
    /\ (WiredComparable /\ Desired.master # MasterSentinel)
          => (MatchHolds <=> (/\ Agree(Desired.master, Candidate.master)
                              /\ Agree(Desired.slave_type, Candidate.slave_type)))

\* a slave profile of bond0 matches a stored slave profile of bond0 on the same
\* interface
C21_Witness ==
    /\ WiredComparable /\ MatchHolds
    /\ Desired.master = BondIf /\ Candidate.master = BondIf
    /\ Desired.slave_type = SETTING_BOND_SETTING_NAME
    /\ Candidate.slave_type = SETTING_BOND_SETTING_NAME
    /\ Desired.ifname = Eth0

C24_CredentialsIgnored ==
    (Compared /\ MatchKind = DeviceTypeWifi)
       => \A k, l \in MatchPsks :
             found_matching(MatchKind, [Desired EXCEPT !.psk = k],
                            [Candidate EXCEPT !.psk = l]) = MatchHolds

\* a wifi profile with one key matches a stored wifi profile with another
C24_Witness ==
    /\ Compared /\ MatchKind = DeviceTypeWifi /\ MatchHolds
    /\ Desired.psk # NONE /\ Candidate.psk # NONE
    /\ Desired.psk # Candidate.psk

----------------------------------------------------------------------------
(* Properties of the search functions *)

ScannedBy(fn) == pc = "scanned" /\ inv.verb = fn

\* the positions of the listed stored connections that satisfy the predicate
StoredMatches ==
    {k \in 1..Len(stored) : found_matching(inv.args.device_type, loc.conn, stored[k].conn)}

\* the least element of a non-empty set of numbers
Least(S) == CHOOSE k \in S : \A j \in S : k <= j

ActiveMatches ==
    {k \in 1..Len(active) :
        /\ ConnOf(stored, active[k].conn) # <<>>
        /\ found_matching(inv.args.device_type, loc.conn,
                          ConnOf(stored, active[k].conn)[1])}

\* C26 as stated, for a desired profile that names its interface:
\* get_active_connection returns the first active connection whose stored connection
\* satisfies the predicate, and none iff there is none; an active connection that
\* cannot be resolved does not change whether another one is returned.
C26_FirstActiveMatch ==
    (ScannedBy("get_active_connection") /\ loc.conn.ifname # NONE) =>
        IF ActiveMatches = {} THEN loc.remote = NoHandle
        ELSE loc.remote = Least(ActiveMatches)

\* the handles, in listing order, of the stored wired connections of a master
RECURSIVE WiredOfMaster(_, _)
WiredOfMaster(conns, m) ==
    IF conns = <<>> THEN <<>>
    ELSE (IF Head(conns).conn.type = SETTING_WIRED_SETTING_NAME
             /\ Head(conns).conn.master # NONE /\ Head(conns).conn.master = m
          THEN <<Head(conns).uid>> ELSE <<>>) \o WiredOfMaster(Tail(conns), m)

----------------------------------------------------------------------------
(* Properties of option parsing from a config document *)

\* try_from has returned for arguments that name a config document
ParsedConfig == pc = "parsed" /\ inv.args.config

\* the arguments with every command-line field left unset
WithoutCli(args) ==
    IF inv.verb \in BondVerbs
    THEN [args EXCEPT !.ifname = NONE, !.bond_mode = NONE, !.ip4_addr = NONE,
                      !.slave_ifnames = <<>>]
    ELSE [args EXCEPT !.ssid = NONE, !.wireless_ifname = NONE, !.ip4_addr = NONE,
                      !.password = NONE]

\* what try_from returns for the arguments, as kept by the state
TryFromOf(args) ==
    IF inv.verb \in BondVerbs THEN BondOptsTryFrom(args) ELSE WifiOptsTryFrom(args)
Outcome(r) == <<IF r.err # NONE THEN r.err ELSE Ok, r.opts>>

\* some command-line field is set
CliGiven ==
    IF inv.verb \in BondVerbs
    THEN inv.args.ifname # NONE \/ inv.args.bond_mode # NONE
         \/ inv.args.ip4_addr # NONE \/ inv.args.slave_ifnames # <<>>
    ELSE inv.args.ssid # NONE \/ inv.args.wireless_ifname # NONE
         \/ inv.args.ip4_addr # NONE \/ inv.args.password # NONE

\* C28: with a config path the options are those parsed from the document alone:
\* they equal the options of the same document with no command-line field given,
\* and a field the document leaves unset stays unset whatever the command line holds.
C28_ConfigAlone ==
    ParsedConfig =>
        /\ <<result, opts>> = Outcome(TryFromOf(WithoutCli(inv.args)))
        /\ result = Ok =>
             IF inv.verb \in BondVerbs
             THEN /\ inv.args.doc.bond_interface = NONE => opts.bond_ifname = NONE
                  /\ inv.args.doc.ip4_addr = NONE => opts.ip4_addr = NONE
                  /\ inv.args.doc.bond_mode = NONE => opts.bond_mode = DefaultBondMode
                  /\ opts.slave_ifnames = SetOfSeq(inv.args.doc.slave_interfaces)
             ELSE /\ inv.args.doc.wireless_interface = NONE => opts.wireless_ifname = NONE
                  /\ inv.args.doc.ssid = NONE => opts.ssid = NONE
                  /\ inv.args.doc.ip4_addr = NONE => opts.ip4_addr = NONE
                  /\ inv.args.doc.password = NONE => opts.password = NONE

\* a document that leaves keys unset is parsed while the command line sets them
C28_Witness ==
    /\ ParsedConfig /\ CliGiven /\ result = Ok
    /\ inv.verb \in WifiVerbs
    /\ inv.args.ssid # NONE /\ inv.args.doc.ssid = NONE /\ opts.ssid = NONE
    /\ inv.args.wireless_ifname # NONE /\ opts.wireless_ifname = inv.args.doc.wireless_interface

\* the document with each empty optional string field left unset instead
EmptyAsUnset(doc) ==
    [f \in DOMAIN doc |->
        IF f \in {"bond_interface", "wireless_interface", "ssid", "ip4_addr"}
           /\ doc[f] = ""
        THEN NONE ELSE doc[f]]

\* some optional string field of the document is the empty string
EmptyGiven ==
    \E f \in DOMAIN inv.args.doc \cap {"bond_interface", "wireless_interface", "ssid",
                                       "ip4_addr"} : inv.args.doc[f] = ""

\* C29: in a config document an empty string for bond_interface, wireless_interface,
\* ssid or ip4_addr gives the same options as leaving the key unset, and the field
\* is absent from the options.
C29_EmptyStringIsUnset ==
    ParsedConfig =>
        /\ <<result, opts>>
             = Outcome(TryFromOf([inv.args EXCEPT !.doc = EmptyAsUnset(inv.args.doc)]))
        /\ result = Ok =>
             \A f \in DOMAIN opts \cap {"bond_ifname", "wireless_ifname", "ssid",
                                        "ip4_addr"} : opts[f] # ""

\* documents with an empty interface, ssid and address have been parsed
C29_Witness ==
    /\ ParsedConfig /\ EmptyGiven /\ result = Ok
    /\ inv.verb \in WifiVerbs
    /\ inv.args.doc.ssid = "" /\ inv.args.doc.ip4_addr = ""
    /\ inv.args.doc.wireless_interface = Wlan0
    /\ opts.ssid = NONE /\ opts.ip4_addr = NONE /\ opts.wireless_ifname = Wlan0

----------------------------------------------------------------------------
(* Properties of the profile builders *)

\* the verb of the invocation has been entered with options that parsed
Running == inv.verb # NONE /\ pc \notin {"idle", "parsed"} /\ OptsParsed

\* the profile the verb builds from its options
BuiltProfile ==
    IF inv.verb \in BondVerbs THEN create_bond_connection(opts)
    ELSE IF inv.verb = "create_station" THEN create_sta_connection(opts)
    ELSE create_access_point_connection(opts)

\* the first required field the options lack, as the builder reads them
RequiredMissing ==
    IF inv.verb \in BondVerbs
    THEN (IF opts.bond_ifname = NONE THEN "bond interface" ELSE NONE)
    ELSE IF opts.ssid = NONE THEN "SSID"
    ELSE IF opts.wireless_ifname = NONE THEN "wireless interface"
    ELSE NONE

\* C30: a profile built from options that lack a required field (bond interface;
\* SSID or wireless interface) is a validation error that names the field, never a
\* panic, and the verb issues no backend call and ends with that error.
C30_MissingFieldNoBackendCall ==
    (Running /\ RequiredMissing # NONE) =>
        /\ BuiltProfile.err = MissingRequiredField
        /\ BuiltProfile.what = RequiredMissing
        /\ calls = <<>>
        /\ <<stored, active>> = <<snap.stored, snap.active>>
        /\ pc \in {inv.verb, "done"}
        /\ pc = "done" => result = MissingRequiredField

\* a bond verb has ended without interface although its mode has no string, and an
\* access point verb without wireless interface
C30_Witness ==
    /\ Running /\ pc = "done" /\ result = MissingRequiredField
    /\ \/ /\ inv.verb = "create_bond" /\ opts.bond_ifname = NONE
          /\ opts.bond_mode # "ActiveBackup" /\ stored # <<>>
       \/ /\ inv.verb = "create_access_point" /\ opts.ssid # NONE
          /\ opts.wireless_ifname = NONE /\ stored # <<>>

----------------------------------------------------------------------------
(* Properties of the bond mode *)

\* a bond verb runs with a mode other than active-backup
OtherModeRuns ==
    Running /\ inv.verb \in BondVerbs /\ opts.bond_mode # "ActiveBackup"

\* C31: with a bond mode other than active-backup, create_bond, delete_bond and
\* bond_status fail no later than the build of the bond profile: no backend query
\* or mutation is issued, the backend is unchanged, the verb never succeeds, and
\* with an interface name the build itself fails in get_bond_mode_str.
C31_OtherModeFailsAtBuild ==
    OtherModeRuns =>
        /\ calls = <<>>
        /\ <<stored, active>> = <<snap.stored, snap.active>>
        /\ pc \in {inv.verb, "done"}
        /\ create_bond_connection(opts).err # NONE
        /\ opts.bond_ifname # NONE => create_bond_connection(opts).err = Panic
        /\ pc = "done" => result \in {Panic, MissingRequiredField, InvalidValue}
        /\ (pc = "done" /\ opts.bond_ifname # NONE /\ opts.slave_ifnames # {}
            /\ \A c \in opts.slave_ifnames : c # "") => result = Panic

\* delete_bond of a stored bond connection has ended in get_bond_mode_str
C31_Witness ==
    /\ OtherModeRuns /\ pc = "done" /\ result = Panic
    /\ inv.verb = "delete_bond"
    /\ BondStored(stored, opts.bond_ifname)

----------------------------------------------------------------------------
(* Termination of the activation wait *)

\* a create verb is in its activation wait
InWait == inv.verb \in CreateVerbs /\ pc = "wait"

\* the awaited active connection is in the failure state Deactivated
Decided == StateOf(active, loc.remote) = StateDeactivated

\* C32 as stated, for the failure state Deactivated: whenever the awaited connection
\* is Deactivated during the wait, also when it is so as the wait begins, the wait
\* eventually returns.
C32_WaitReturns == (InWait /\ Decided) ~> (pc = "done")

----------------------------------------------------------------------------
(* Order of the backend calls *)

\* the positions of the calls of an operation in the log of the running verb
At(op) == {k \in 1..Len(calls) : calls[k].op = op}

\* the add of the bond connection, and the adds of the slave connections
BondAdds  == {k \in At("add") : calls[k].master = NONE}
SlaveAdds == {k \in At("add") : calls[k].master # NONE}

\* C33: in create_bond the bond connection is added only after the device lookup of
\* every slave interface has succeeded, the bond add precedes every slave add, and
\* every activate directly follows the successful add of the slave connection it
\* activates and targets the device named as that slave's interface.
C33_CreateBondOrder ==
    Entered("create_bond") =>
        /\ \A b \in BondAdds :
              /\ calls[b].ifname = opts.bond_ifname
              /\ \A s \in opts.slave_ifnames :
                    /\ s \in devices
                    /\ \E j \in 1..(b - 1) : calls[j] = Query("device_by_iface", s)
              /\ \A k \in SlaveAdds : b < k
        /\ Cardinality(BondAdds) <= 1
        /\ \A k \in SlaveAdds :
              /\ BondAdds # {} /\ \A b \in BondAdds : calls[b].ok
              /\ calls[k].master = opts.bond_ifname
              /\ calls[k].ifname \in opts.slave_ifnames
        /\ \A k \in At("activate") :
              /\ k - 1 \in SlaveAdds
              /\ calls[k - 1].ok
              /\ calls[k].uid = calls[k - 1].uid
              /\ calls[k].ifname = calls[k - 1].ifname

\* create_bond with two slaves has added the bond and added and activated both
C33_Witness ==
    /\ Entered("create_bond")
    /\ Cardinality(opts.slave_ifnames) = 2
    /\ Cardinality(SlaveAdds) = 2
    /\ Cardinality(At("activate")) = 2
    /\ \A k \in At("activate") : calls[k].ok

\* the connections active when the verb began whose stored profile is the station
\* profile of the requested interface and SSID
StationsAtStart ==
    {snap.active[j].conn : j \in {k \in 1..Len(snap.active) :
        LET c == ConnOf(snap.stored, snap.active[k].conn)
        IN /\ c # <<>>
           /\ c[1].type = SETTING_WIRELESS_SETTING_NAME
           /\ c[1].wireless
           /\ c[1].mode = SETTING_WIRELESS_MODE_INFRA
           /\ c[1].ifname = opts.wireless_ifname
           /\ c[1].ssid = opts.ssid}}

MatchedAtStart ==
    get_connection(snap.stored, DeviceTypeOf(inv.verb), SearchTemplate(inv.verb, opts).conn)

\* the connection with this handle was active when the verb began
ActiveAtStart(uid) == \E k \in 1..Len(snap.active) : snap.active[k].conn = uid

\* a delete verb runs and has matched a stored connection
DeleteRuns ==
    /\ inv.verb \in DeleteVerbs /\ Entered(inv.verb) /\ OptsParsed
    /\ SearchTemplate(inv.verb, opts).err = NONE
    /\ MatchedAtStart # NoHandle

\* the deletes of the matched connection
MatchedDeletes == {k \in At("delete") : calls[k].uid = MatchedAtStart}

\* C35 as stated: in delete_bond and delete_access_point, when the matched connection
\* is active its deactivate has been issued and has succeeded before its delete is
\* issued, and a failed deactivate leaves it stored and undeleted; when it is not
\* active it is deleted without any deactivate.
C35_DeactivateBeforeDelete ==
    DeleteRuns =>
        /\ ActiveAtStart(MatchedAtStart) =>
              /\ \A k \in MatchedDeletes : \E j \in 1..(k - 1) :
                    /\ calls[j].op = "deactivate" /\ calls[j].ok
                    /\ calls[j].uid = MatchedAtStart
              /\ (\E j \in At("deactivate") : ~calls[j].ok) =>
                    /\ At("delete") = {}
                    /\ ConnOf(stored, MatchedAtStart) # <<>>
        /\ ~ActiveAtStart(MatchedAtStart) => At("deactivate") = {}

----------------------------------------------------------------------------
(* Failures of backend operations *)

\* the positions of the backend mutations that failed
FailedMutations == {k \in MutationsIn(calls) : ~calls[k].ok}

\* C36: in every verb a failed add, activate, deactivate or delete ends the verb with
\* that failure: it is the last backend call of the invocation (nothing is issued
\* after it, the operation is not tried again) and the verb has returned the error.
C36_FailureReturnsAtOnce ==
    Running =>
        \A k \in FailedMutations :
            /\ k = Len(calls)
            /\ pc = "done"
            /\ result = BackendOperationFailed
            /\ Cardinality(FailedMutations) = 1

\* a slave activate failed after the bond and the slave were added
C36_Witness ==
    /\ Running /\ inv.verb = "create_bond"
    /\ FailedMutations # {}
    /\ calls[Len(calls)].op = "activate"
    /\ Cardinality({k \in At("add") : calls[k].ok}) = 2

\* C37: create_bond does not roll back: it issues no delete and deactivates no
\* connection it added, and every connection it added is still stored, also when a
\* later slave add, a slave activate or the activation wait has failed and the verb
\* has returned the error.
C37_NoRollback ==
    Entered("create_bond") =>
        /\ At("delete") = {}
        /\ \A k \in At("deactivate") : calls[k].uid \notin Added(calls)
        /\ \A u \in Added(calls) : ConnOf(stored, u) # <<>>

\* create_bond has returned an error after adding the bond and a slave connection
C37_Witness ==
    /\ Entered("create_bond") /\ pc = "done"
    /\ result \in {BackendOperationFailed, ActivationFailed}
    /\ Cardinality(Added(calls)) >= 2
    /\ \A u \in Added(calls) : ConnOf(stored, u) # <<>>

----------------------------------------------------------------------------
(* Properties of the status verbs *)

\* a status verb runs
StatusRuns == Running /\ inv.verb \in {"bond_status", "access_point_status"}

\* some active connection has a stored profile that satisfies the predicate for the
\* template of the running verb
ActiveMatch ==
    \E k \in 1..Len(active) :
        /\ ConnOf(stored, active[k].conn) # <<>>
        /\ found_matching(DeviceTypeOf(inv.verb), SearchTemplate(inv.verb, opts).conn,
                          ConnOf(stored, active[k].conn)[1])

\* C38: bond_status and access_point_status are read-only: whether they succeed or
\* fail they issue no add, activate, deactivate or delete and the stored and active
\* connections are those of the start; a report made when no active connection
\* matches gives the state deactivated.
C38_StatusReadOnly ==
    StatusRuns =>
        /\ MutationsIn(calls) = {}
        /\ <<stored, active>> = <<snap.stored, snap.active>>
        /\ (pc = "done" /\ result = Ok) =>
              /\ loc.report.name # NONE
              /\ ~ActiveMatch => loc.report.state = StateDeactivated

\* bond_status has reported a stored bond connection that is not active, while
\* another connection is
C38_Witness ==
    /\ StatusRuns /\ inv.verb = "bond_status"
    /\ pc = "done" /\ result = Ok
    /\ ~ActiveMatch /\ active # <<>>
    /\ loc.report.state = StateDeactivated

----------------------------------------------------------------------------
(* Properties of the IPv4 settings of a built profile *)

\* a builder has produced a profile
Produced == pc = "built" /\ result = Ok

SentinelGiven ==
    /\ inv.verb = "create_bond" /\ Running
    /\ \/ opts.bond_ifname = MasterSentinel
       \/ MasterSentinel \in opts.slave_ifnames

\* C40: the reserved master value is never persisted: no profile handed to
\* add_connection has it as its master, and an invocation whose bond
\* interface or slave interface is the reserved value is refused before any
\* add_connection call.
C40_SentinelNeverPersisted ==
    /\ \A k \in At("add") : calls[k].master # MasterSentinel
    /\ SentinelGiven => At("add") = {}
====
